---- MODULE Spec2Model ----
(***************************************************************************)
(* The two TwoThirdsAverageGame contracts of the repository as one state   *)
(* machine:                                                                *)
(*   variant = "ts"  src/contracts/TwoThirdsAverageGame.sol (deadlines in  *)
(*                   block.timestamp seconds, owner may force phases)      *)
(*   variant = "bh"  src/unnamed/part_002 (deadlines in block numbers,     *)
(*                   phase Abgebrochen and reclaimWager)                   *)
(* Every public function is one action.  A call that reverts leaves the    *)
(* contract state as it was and records the revert reason in `last`.       *)
(***************************************************************************)
EXTENDS Integers, Sequences, FiniteSets, TLC

VARIABLES
    variant,                 \* which of the two contracts this instance is
    deployed,                \* the constructor succeeded
    WAGER_AMOUNT,            \* immutable, set by the constructor
    SERVICE_FEE_PERCENTAGE,  \* immutable, set by the constructor
    aktuellePhase,
    spielerDaten,            \* mapping(address => SpielerInfo)
    spielerListe,            \* address[]
    deadline,                \* deadline (ts) / deadlineBlock (bh)
    pot,
    serviceFeeWithdrawn,
    winner,
    potentialWinners,        \* address[]
    averageValue,
    targetValue,
    winningDistance,
    now,                     \* block.timestamp (ts) / block.number (bh)
    balance,                 \* address(this).balance
    received,                \* ether each address has received from the contract
    paidPrize,               \* ether sent by successful withdrawPrize calls
    paidFee,                 \* ether sent by successful withdrawServiceFee calls
    last,                    \* the last call: [op, err]
    callStack                \* the payouts whose recipient is running, innermost last

contractVars == <<deployed, WAGER_AMOUNT, SERVICE_FEE_PERCENTAGE, aktuellePhase,
                  spielerDaten, spielerListe, deadline, pot, serviceFeeWithdrawn,
                  winner, potentialWinners, averageValue, targetValue,
                  winningDistance, balance, received, paidPrize, paidFee>>

vars == <<variant, contractVars, now, last, callStack>>

----------------------------------------------------------------------------
(* Bounds of the model *)

\* the tie-break entropy keccak256(...) is explored over 0..MaxEntropy
MaxEntropy == 2

----------------------------------------------------------------------------
(* Identities and inputs *)

owner == "owner"
NoAddress == "0x0"
Addr == {"owner", "p1", "p2", "p3"}
\* the keys of the mappings: the callers and address(0)
AllAddr == Addr \cup {NoAddress}

Variants == {"ts", "bh"}
WagerInputs == {0, 5}
FeeInputs == {10, 101}

\* the identities that call beitreten; p3 stays a third party
Joiners == {"owner", "p1", "p2"}

\* the numbers each player may commit to: owner and p1 can tie on 100, and
\* 100, 200, 300 is the example of the specification
Guesses(sender) ==
    CASE sender = "owner" -> {100}
      [] sender = "p1" -> {100, 200}
      [] sender = "p2" -> {300}
      [] OTHER -> {}
\* the numbers a caller passes to reveal: its guesses, 100 (the number p1's
\* copied commitment is over) and one above the range 0..1000
RevealInputs(sender) == Guesses(sender) \cup {100, 1001}
Salts == {"salt1", "wrong_salt"}

\* keccak256(abi.encodePacked(uint16, bytes32, address)): the packed encoding
\* has fixed widths, so it is injective, and the hash is taken collision free.
H(number, salt, sender) == <<number, salt, sender>>
\* bytes32(0)
ZeroHash == <<>>

\* the commitments a caller submits: empty, an honest one over its own
\* identity, or (p2) a copy of p1's commitment to 100
CommitInputs(sender) ==
    {ZeroHash} \cup {H(n, "salt1", sender) : n \in Guesses(sender)}
               \cup (IF sender \in {"p2", "p3"} THEN {H(100, "salt1", "p1")} ELSE {})

BlockSteps == {10}
SecondSteps == {301}

----------------------------------------------------------------------------
(* Constants of the contracts *)

MIN_PLAYERS == 3
REGISTRATION_DURATION == 600
COMMIT_DURATION == 300
REVEAL_DURATION == 300
REGISTRATION_BLOCKS == 10
COMMIT_BLOCKS == 10
REVEAL_BLOCKS == 10
\* type(uint256).max; every distance is at most 1000, and TLC's integers
\* are 32 bits wide
UINT256_MAX == 2147483647

----------------------------------------------------------------------------
(* Revert reasons *)

OK == "ok"
ErrPhase == "Funktion in dieser Phase nicht erlaubt."
ErrDeadlineExpired ==
    IF variant = "ts" THEN "Deadline fuer diese Aktion ist abgelaufen."
    ELSE "Deadline-Block fuer diese Aktion ist erreicht."
ErrWagerZero == "Wetteinsatz muss groesser als 0 sein."
ErrFeeTooHigh == "Servicegebuehr darf maximal 100% sein."
ErrWrongWager == "Falscher Wetteinsatz gesendet."
ErrAlreadyJoined == "Spieler hat bereits teilgenommen."
ErrCommitNotPlayer == "Nur registrierte Spieler duerfen committen."
ErrAlreadyCommitted == "Spieler hat bereits einen Commit eingereicht."
ErrEmptyCommitment == "Commitment darf nicht leer sein."
ErrRevealNotPlayer == "Nur registrierte Spieler duerfen aufdecken."
ErrNotCommitted == "Spieler muss zuerst einen Commit einreichen."
ErrAlreadyRevealed == "Spieler hat bereits aufgedeckt."
ErrNumberRange == "Zahl muss zwischen 0 und 1000 liegen."
ErrInvalidReveal ==
    IF variant = "ts" THEN "Ungueltiger Reveal. Zahl oder Salt sind falsch."
    ELSE "Ungueltiger Reveal: Zahl oder Salt sind falsch."
ErrTooEarlyTs == "Uebergang noch nicht erlaubt."
ErrTooEarlyBh == "Deadline-Block fuer diese Aktion ist noch nicht erreicht."
ErrNotEnoughPlayers == "Nicht genuegend Spieler beigetreten."
ErrOnlyOwnerEnds == "Nur Spielleiter kann Spiel beenden."
ErrPayoutsOpen == "Auszahlungen noch nicht abgeschlossen."
ErrNotOwner == "OwnableUnauthorizedAccount"
ErrNobodyRevealed == "Niemand hat aufgedeckt, Spiel kann nicht ausgewertet werden."
ErrNoPotentialWinner == "Interner Fehler: Kein potenzieller Gewinner gefunden."
ErrNotWinner == "Nur der Gewinner kann das Preisgeld abheben."
ErrPrizeWithdrawn == "Gewinner hat bereits abgehoben."
ErrPrizeTransfer == "Ether-Transfer an Gewinner fehlgeschlagen."
ErrFeeWithdrawn == "Servicegebuehr wurde bereits abgehoben."
ErrFeeTransfer == "Ether-Transfer an Spielleiter fehlgeschlagen."
ErrReclaimNotPlayer == "Nur Spieler koennen Einsatz zurueckfordern."
ErrAlreadyReclaimed == "Einsatz bereits zurueckgefordert."
ErrRefundTransfer == "Rueckzahlung fehlgeschlagen."

----------------------------------------------------------------------------
(* Helpers *)

\* the record of a call; the caller shows in the revert reason
Call(op, sender, err) == [op |-> op, err |-> err]

\* a reverted call: no state variable of the contract changes
Revert(op, sender, err) ==
    /\ last' = Call(op, sender, err)
    /\ UNCHANGED <<variant, contractVars, now, callStack>>

\* SpielerInfo() of an address that never joined
NoSpieler ==
    [wagerAmount |-> 0, commitment |-> ZeroHash, revealedNumber |-> 0,
     hasCommitted |-> FALSE, hasRevealed |-> FALSE, hasWithdrawn |-> FALSE]

nurInPhase(_phase) == aktuellePhase = _phase
\* Faulty variant of nurVorDeadline that still admits the deadline itself,
\* used to show that C40 depends on the strict comparison.
nurVorDeadlineInklusive == now <= deadline

nurVorDeadline == now < deadline

\* (pot * SERVICE_FEE_PERCENTAGE) / 100
serviceFee == (pot * SERVICE_FEE_PERCENTAGE) \div 100

----------------------------------------------------------------------------
(* Constructor *)

\* Faulty variant of constructorCheck without the fee require, used to show
\* that C21 depends on it.
constructorCheckOhneGebuehr(_wagerAmount, _serviceFeePercentage) ==
    IF ~(_wagerAmount > 0) THEN ErrWagerZero ELSE OK

constructorCheck(_wagerAmount, _serviceFeePercentage) ==
    IF ~(_wagerAmount > 0) THEN ErrWagerZero
    ELSE IF ~(_serviceFeePercentage <= 100) THEN ErrFeeTooHigh
    ELSE OK

Init ==
    \E v \in Variants, _wagerAmount \in WagerInputs, _serviceFeePercentage \in FeeInputs :
        LET err == constructorCheck(_wagerAmount, _serviceFeePercentage)
            w == IF v = "ts" THEN REGISTRATION_DURATION ELSE REGISTRATION_BLOCKS
        IN  /\ variant = v
            /\ now = 0
            /\ deployed = (err = OK)
            /\ WAGER_AMOUNT = IF err = OK THEN _wagerAmount ELSE 0
            /\ SERVICE_FEE_PERCENTAGE = IF err = OK THEN _serviceFeePercentage ELSE 0
            /\ aktuellePhase = "Registrierung"
            /\ deadline = IF err = OK THEN now + w ELSE 0
            /\ spielerDaten = [a \in AllAddr |-> NoSpieler]
            /\ spielerListe = <<>>
            /\ pot = 0
            /\ serviceFeeWithdrawn = FALSE
            /\ winner = NoAddress
            /\ potentialWinners = <<>>
            /\ averageValue = 0
            /\ targetValue = 0
            /\ winningDistance = 0
            /\ balance = 0
            /\ received = [a \in Addr |-> 0]
            /\ paidPrize = 0
            /\ paidFee = 0
            /\ last = Call("constructor", owner, err)
            /\ callStack = <<>>

----------------------------------------------------------------------------
(* beitreten *)

\* Faulty variants of beitretenCheck, used to show that C1 and C4 depend on
\* the stake check and on the duplicate check.
beitretenCheckOhneEinsatz(sender, value) ==
    IF ~nurInPhase("Registrierung") THEN ErrPhase
    ELSE IF ~nurVorDeadline THEN ErrDeadlineExpired
    ELSE IF ~(spielerDaten[sender].wagerAmount = 0) THEN ErrAlreadyJoined
    ELSE OK

beitretenCheckOhneDuplikat(sender, value) ==
    IF ~nurInPhase("Registrierung") THEN ErrPhase
    ELSE IF ~nurVorDeadline THEN ErrDeadlineExpired
    ELSE IF ~(value = WAGER_AMOUNT) THEN ErrWrongWager
    ELSE OK

\* Faulty variant of beitretenCheck that only looks at the stake, used to
\* show that C17 depends on a player record never being written anew.
beitretenCheckNurEinsatz(sender, value) ==
    IF ~(value = WAGER_AMOUNT) THEN ErrWrongWager ELSE OK

\* Faulty variant of beitretenCheck without nurVorDeadline, used to show that
\* C22 depends on it.
beitretenCheckOhneDeadline(sender, value) ==
    IF ~nurInPhase("Registrierung") THEN ErrPhase
    ELSE IF ~(value = WAGER_AMOUNT) THEN ErrWrongWager
    ELSE IF ~(spielerDaten[sender].wagerAmount = 0) THEN ErrAlreadyJoined
    ELSE OK

beitretenCheck(sender, value) ==
    IF ~nurInPhase("Registrierung") THEN ErrPhase
    ELSE IF ~nurVorDeadline THEN ErrDeadlineExpired
    ELSE IF ~(value = WAGER_AMOUNT) THEN ErrWrongWager
    ELSE IF ~(spielerDaten[sender].wagerAmount = 0) THEN ErrAlreadyJoined
    ELSE OK

beitreten(sender, value) ==
    /\ deployed
    /\ LET err == beitretenCheck(sender, value) IN
       IF err # OK THEN Revert("beitreten", sender, err)
       ELSE /\ spielerListe' = Append(spielerListe, sender)
            /\ spielerDaten' = [spielerDaten EXCEPT ![sender] =
                   [wagerAmount |-> value, commitment |-> ZeroHash,
                    revealedNumber |-> 0, hasCommitted |-> FALSE,
                    hasRevealed |-> FALSE, hasWithdrawn |-> FALSE]]
            /\ pot' = pot + value
            /\ balance' = balance + value
            /\ last' = Call("beitreten", sender, OK)
            /\ UNCHANGED <<callStack, variant, deployed, WAGER_AMOUNT, SERVICE_FEE_PERCENTAGE,
                           aktuellePhase, deadline, serviceFeeWithdrawn, winner,
                           potentialWinners, averageValue, targetValue,
                           winningDistance, now, received, paidPrize, paidFee>>

----------------------------------------------------------------------------
(* commit *)

\* Faulty variant of commitCheck without the registered-player require, used
\* to show that C16 depends on it.
commitCheckOhneSpieler(sender, _commitment) ==
    IF ~nurInPhase("Commit") THEN ErrPhase
    ELSE IF ~nurVorDeadline THEN ErrDeadlineExpired
    ELSE IF spielerDaten[sender].hasCommitted THEN ErrAlreadyCommitted
    ELSE IF ~(_commitment # ZeroHash) THEN ErrEmptyCommitment
    ELSE OK

\* Faulty variant of commitCheck that accepts the empty commitment, used to
\* show that C23 depends on the non-zero require.
commitCheckOhneLeer(sender, _commitment) ==
    IF ~nurInPhase("Commit") THEN ErrPhase
    ELSE IF ~nurVorDeadline THEN ErrDeadlineExpired
    ELSE IF ~(spielerDaten[sender].wagerAmount > 0) THEN ErrCommitNotPlayer
    ELSE IF spielerDaten[sender].hasCommitted THEN ErrAlreadyCommitted
    ELSE OK

\* Faulty variant of commitCheck that also admits the Reveal phase, used to
\* show that C32 depends on nurInPhase(Commit).
commitCheckAuchImReveal(sender, _commitment) ==
    IF ~(nurInPhase("Commit") \/ nurInPhase("Reveal")) THEN ErrPhase
    ELSE IF ~nurVorDeadline THEN ErrDeadlineExpired
    ELSE IF ~(spielerDaten[sender].wagerAmount > 0) THEN ErrCommitNotPlayer
    ELSE IF spielerDaten[sender].hasCommitted THEN ErrAlreadyCommitted
    ELSE IF ~(_commitment # ZeroHash) THEN ErrEmptyCommitment
    ELSE OK

commitCheck(sender, _commitment) ==
    IF ~nurInPhase("Commit") THEN ErrPhase
    ELSE IF ~nurVorDeadline THEN ErrDeadlineExpired
    ELSE IF ~(spielerDaten[sender].wagerAmount > 0) THEN ErrCommitNotPlayer
    ELSE IF spielerDaten[sender].hasCommitted THEN ErrAlreadyCommitted
    ELSE IF ~(_commitment # ZeroHash) THEN ErrEmptyCommitment
    ELSE OK

commit(sender, _commitment) ==
    /\ deployed
    /\ LET err == commitCheck(sender, _commitment) IN
       IF err # OK THEN Revert("commit", sender, err)
       ELSE /\ spielerDaten' = [spielerDaten EXCEPT
                   ![sender].commitment = _commitment,
                   ![sender].hasCommitted = TRUE]
            /\ last' = Call("commit", sender, OK)
            /\ UNCHANGED <<callStack, variant, deployed, WAGER_AMOUNT, SERVICE_FEE_PERCENTAGE,
                           aktuellePhase, spielerListe, deadline, pot,
                           serviceFeeWithdrawn, winner, potentialWinners,
                           averageValue, targetValue, winningDistance, now,
                           balance, received, paidPrize, paidFee>>

----------------------------------------------------------------------------
(* reveal *)

\* Faulty variant of revealCheck without the comparison of the recomputed
\* commitment, used to show that C5 depends on it.
revealCheckOhneHash(sender, _number, _salt) ==
    IF ~nurInPhase("Reveal") THEN ErrPhase
    ELSE IF ~nurVorDeadline THEN ErrDeadlineExpired
    ELSE IF ~(spielerDaten[sender].wagerAmount > 0) THEN ErrRevealNotPlayer
    ELSE IF ~spielerDaten[sender].hasCommitted THEN ErrNotCommitted
    ELSE IF spielerDaten[sender].hasRevealed THEN ErrAlreadyRevealed
    ELSE IF ~(_number <= 1000) THEN ErrNumberRange
    ELSE OK

\* Faulty variant of revealCheck whose hash leaves out msg.sender, used to
\* show that C31 depends on the identity being part of the hash.
revealCheckOhneIdentitaet(sender, _number, _salt) ==
    IF ~nurInPhase("Reveal") THEN ErrPhase
    ELSE IF ~nurVorDeadline THEN ErrDeadlineExpired
    ELSE IF ~(spielerDaten[sender].wagerAmount > 0) THEN ErrRevealNotPlayer
    ELSE IF ~spielerDaten[sender].hasCommitted THEN ErrNotCommitted
    ELSE IF spielerDaten[sender].hasRevealed THEN ErrAlreadyRevealed
    ELSE IF ~(_number <= 1000) THEN ErrNumberRange
    ELSE IF ~(\E x \in Addr : H(_number, _salt, x) = spielerDaten[sender].commitment)
         THEN ErrInvalidReveal
    ELSE OK

revealCheck(sender, _number, _salt) ==
    IF ~nurInPhase("Reveal") THEN ErrPhase
    ELSE IF ~nurVorDeadline THEN ErrDeadlineExpired
    ELSE IF ~(spielerDaten[sender].wagerAmount > 0) THEN ErrRevealNotPlayer
    ELSE IF ~spielerDaten[sender].hasCommitted THEN ErrNotCommitted
    ELSE IF spielerDaten[sender].hasRevealed THEN ErrAlreadyRevealed
    ELSE IF ~(_number <= 1000) THEN ErrNumberRange
    ELSE IF ~(H(_number, _salt, sender) = spielerDaten[sender].commitment)
         THEN ErrInvalidReveal
    ELSE OK

\* Faulty variant of reveal that marks the player as revealed even when the
\* hash does not match, used to show that C30 depends on the revert.
revealVerbrauchtVersuch(sender, _number, _salt) ==
    /\ deployed
    /\ LET err == revealCheck(sender, _number, _salt) IN
       IF err = ErrInvalidReveal
       THEN /\ spielerDaten' = [spielerDaten EXCEPT ![sender].hasRevealed = TRUE]
            /\ last' = Call("reveal", sender, err)
            /\ UNCHANGED <<callStack, variant, deployed, WAGER_AMOUNT, SERVICE_FEE_PERCENTAGE,
                           aktuellePhase, spielerListe, deadline, pot,
                           serviceFeeWithdrawn, winner, potentialWinners,
                           averageValue, targetValue, winningDistance, now,
                           balance, received, paidPrize, paidFee>>
       ELSE IF err # OK THEN Revert("reveal", sender, err)
       ELSE /\ spielerDaten' = [spielerDaten EXCEPT
                   ![sender].revealedNumber = _number,
                   ![sender].hasRevealed = TRUE]
            /\ last' = Call("reveal", sender, OK)
            /\ UNCHANGED <<callStack, variant, deployed, WAGER_AMOUNT, SERVICE_FEE_PERCENTAGE,
                           aktuellePhase, spielerListe, deadline, pot,
                           serviceFeeWithdrawn, winner, potentialWinners,
                           averageValue, targetValue, winningDistance, now,
                           balance, received, paidPrize, paidFee>>

reveal(sender, _number, _salt) ==
    /\ deployed
    /\ LET err == revealCheck(sender, _number, _salt) IN
       IF err # OK THEN Revert("reveal", sender, err)
       ELSE /\ spielerDaten' = [spielerDaten EXCEPT
                   ![sender].revealedNumber = _number,
                   ![sender].hasRevealed = TRUE]
            /\ last' = Call("reveal", sender, OK)
            /\ UNCHANGED <<callStack, variant, deployed, WAGER_AMOUNT, SERVICE_FEE_PERCENTAGE,
                           aktuellePhase, spielerListe, deadline, pot,
                           serviceFeeWithdrawn, winner, potentialWinners,
                           averageValue, targetValue, winningDistance, now,
                           balance, received, paidPrize, paidFee>>

----------------------------------------------------------------------------
(* forceStateTransition (ts) *)

\* Faulty variant of forceStateTransitionCheck without the MIN_PLAYERS
\* require, used to show that C15 depends on it.
forceStateTransitionCheckOhneQuorum(sender) ==
    IF aktuellePhase \in {"Registrierung", "Commit", "Reveal"} THEN
        IF ~(now >= deadline \/ sender = owner) THEN ErrTooEarlyTs ELSE OK
    ELSE IF aktuellePhase = "Auszahlung" THEN
        IF ~(sender = owner) THEN ErrOnlyOwnerEnds
        ELSE IF ~(serviceFeeWithdrawn /\ spielerDaten[winner].hasWithdrawn)
             THEN ErrPayoutsOpen
        ELSE OK
    ELSE OK

\* Faulty variant of forceStateTransitionCheck that lets every caller move
\* the phase before the deadline, used to show that C36 depends on the
\* shortcut being the owner's alone.
forceStateTransitionCheckJederFrueh(sender) ==
    IF aktuellePhase = "Registrierung" THEN
        IF ~(Len(spielerListe) >= MIN_PLAYERS) THEN ErrNotEnoughPlayers
        ELSE OK
    ELSE IF aktuellePhase = "Auszahlung" THEN
        IF ~(sender = owner) THEN ErrOnlyOwnerEnds
        ELSE IF ~(serviceFeeWithdrawn /\ spielerDaten[winner].hasWithdrawn)
             THEN ErrPayoutsOpen
        ELSE OK
    ELSE OK

forceStateTransitionCheck(sender) ==
    IF aktuellePhase = "Registrierung" THEN
        IF ~(now >= deadline \/ sender = owner) THEN ErrTooEarlyTs
        ELSE IF ~(Len(spielerListe) >= MIN_PLAYERS) THEN ErrNotEnoughPlayers
        ELSE OK
    ELSE IF aktuellePhase = "Commit" THEN
        IF ~(now >= deadline \/ sender = owner) THEN ErrTooEarlyTs ELSE OK
    ELSE IF aktuellePhase = "Reveal" THEN
        IF ~(now >= deadline \/ sender = owner) THEN ErrTooEarlyTs ELSE OK
    ELSE IF aktuellePhase = "Auszahlung" THEN
        IF ~(sender = owner) THEN ErrOnlyOwnerEnds
        ELSE IF ~(serviceFeeWithdrawn /\ spielerDaten[winner].hasWithdrawn)
             THEN ErrPayoutsOpen
        ELSE OK
    ELSE OK

\* Faulty variant of forceStateTransitionZiel that leaves the reveal deadline
\* in place on Reveal -> Berechnung, used to show that C33 depends on the
\* deadline being cleared.
forceStateTransitionZielOhneLoeschen ==
    CASE aktuellePhase = "Registrierung" ->
             [phase |-> "Commit", deadline |-> now + COMMIT_DURATION]
      [] aktuellePhase = "Commit" ->
             [phase |-> "Reveal", deadline |-> now + REVEAL_DURATION]
      [] aktuellePhase = "Reveal" ->
             [phase |-> "Berechnung", deadline |-> deadline]
      [] aktuellePhase = "Auszahlung" ->
             [phase |-> "Abgeschlossen", deadline |-> deadline]
      [] OTHER -> [phase |-> aktuellePhase, deadline |-> deadline]

\* the phase and the deadline forceStateTransition stores
forceStateTransitionZiel ==
    CASE aktuellePhase = "Registrierung" ->
             [phase |-> "Commit", deadline |-> now + COMMIT_DURATION]
      [] aktuellePhase = "Commit" ->
             [phase |-> "Reveal", deadline |-> now + REVEAL_DURATION]
      [] aktuellePhase = "Reveal" ->
             [phase |-> "Berechnung", deadline |-> 0]
      [] aktuellePhase = "Auszahlung" ->
             [phase |-> "Abgeschlossen", deadline |-> deadline]
      [] OTHER -> [phase |-> aktuellePhase, deadline |-> deadline]

forceStateTransition(sender) ==
    /\ deployed
    /\ variant = "ts"
    /\ LET err == forceStateTransitionCheck(sender) IN
       IF err # OK THEN Revert("forceStateTransition", sender, err)
       ELSE /\ aktuellePhase' = forceStateTransitionZiel.phase
            /\ deadline' = forceStateTransitionZiel.deadline
            /\ last' = Call("forceStateTransition", sender, OK)
            /\ UNCHANGED <<callStack, variant, deployed, WAGER_AMOUNT, SERVICE_FEE_PERCENTAGE,
                           spielerDaten, spielerListe, pot, serviceFeeWithdrawn,
                           winner, potentialWinners, averageValue, targetValue,
                           winningDistance, now, balance, received, paidPrize,
                           paidFee>>

----------------------------------------------------------------------------
(* advancePhase (bh) *)

\* Faulty variant of advancePhaseCheck that lets only the owner advance, used
\* to show that C13 depends on advancePhase being open to every caller.
advancePhaseCheckNurOwner(sender) ==
    IF ~(sender = owner) THEN ErrNotOwner
    ELSE IF ~(now >= deadline) THEN ErrTooEarlyBh
    ELSE OK

\* Faulty variant of advancePhaseCheck without the deadline-block guard, used
\* to show that C6 depends on it.
advancePhaseCheckOhneDeadline(sender) == OK

\* Faulty variant of advancePhaseCheck that refuses the call in a phase
\* without a transition, used to show that C24 depends on the missing check.
advancePhaseCheckMitPhase(sender) ==
    IF ~(now >= deadline) THEN ErrTooEarlyBh
    ELSE IF aktuellePhase \notin {"Registrierung", "Commit", "Reveal"} THEN ErrPhase
    ELSE OK

advancePhaseCheck(sender) ==
    IF ~(now >= deadline) THEN ErrTooEarlyBh ELSE OK

\* Faulty variant of advancePhaseZiel that leaves Registrierung for Commit
\* whatever the number of players, used to show that C7 depends on the quorum.
advancePhaseZielOhneQuorum ==
    CASE aktuellePhase = "Registrierung" ->
             [phase |-> "Commit", deadline |-> now + COMMIT_BLOCKS]
      [] aktuellePhase = "Commit" ->
             [phase |-> "Reveal", deadline |-> now + REVEAL_BLOCKS]
      [] aktuellePhase = "Reveal" ->
             [phase |-> "Berechnung", deadline |-> 0]
      [] OTHER -> [phase |-> aktuellePhase, deadline |-> deadline]

\* Faulty variant of advancePhaseZiel that returns from Reveal to Commit, used
\* to show that C12 depends on the order of the phases.
advancePhaseZielRueckwaerts ==
    CASE aktuellePhase = "Registrierung" ->
             IF Len(spielerListe) < MIN_PLAYERS
             THEN [phase |-> "Abgebrochen", deadline |-> deadline]
             ELSE [phase |-> "Commit", deadline |-> now + COMMIT_BLOCKS]
      [] aktuellePhase = "Commit" ->
             [phase |-> "Reveal", deadline |-> now + REVEAL_BLOCKS]
      [] aktuellePhase = "Reveal" ->
             [phase |-> "Commit", deadline |-> now + COMMIT_BLOCKS]
      [] OTHER -> [phase |-> aktuellePhase, deadline |-> deadline]

\* the phase and the deadline block advancePhase stores
advancePhaseZiel ==
    CASE aktuellePhase = "Registrierung" ->
             IF Len(spielerListe) < MIN_PLAYERS
             THEN [phase |-> "Abgebrochen", deadline |-> deadline]
             ELSE [phase |-> "Commit", deadline |-> now + COMMIT_BLOCKS]
      [] aktuellePhase = "Commit" ->
             [phase |-> "Reveal", deadline |-> now + REVEAL_BLOCKS]
      [] aktuellePhase = "Reveal" ->
             [phase |-> "Berechnung", deadline |-> 0]
      [] OTHER -> [phase |-> aktuellePhase, deadline |-> deadline]

advancePhase(sender) ==
    /\ deployed
    /\ variant = "bh"
    /\ LET err == advancePhaseCheck(sender) IN
       IF err # OK THEN Revert("advancePhase", sender, err)
       ELSE /\ aktuellePhase' = advancePhaseZiel.phase
            /\ deadline' = advancePhaseZiel.deadline
            /\ last' = Call("advancePhase", sender, OK)
            /\ UNCHANGED <<callStack, variant, deployed, WAGER_AMOUNT, SERVICE_FEE_PERCENTAGE,
                           spielerDaten, spielerListe, pot, serviceFeeWithdrawn,
                           winner, potentialWinners, averageValue, targetValue,
                           winningDistance, now, balance, received, paidPrize,
                           paidFee>>

----------------------------------------------------------------------------
(* Result calculation: berechneErgebnisUndErmittleGewinner (ts),            *)
(* calculateResult (bh)                                                     *)

\* Faulty variant of the first loop that counts every joined player, used to
\* show that C9 depends on the hasRevealed filter.
RECURSIVE summeSchleifeAlleSpieler(_, _, _)
summeSchleifeAlleSpieler(i, summe, anzahl) ==
    IF i > Len(spielerListe) THEN <<summe, anzahl>>
    ELSE summeSchleifeAlleSpieler(i + 1,
                                  summe + spielerDaten[spielerListe[i]].revealedNumber,
                                  anzahl + 1)

\* first loop: <<summe, anzahlAufgedeckterSpieler>> over spielerListe[i..]
RECURSIVE summeSchleife(_, _, _)
summeSchleife(i, summe, anzahl) ==
    IF i > Len(spielerListe) THEN <<summe, anzahl>>
    ELSE IF spielerDaten[spielerListe[i]].hasRevealed
         THEN summeSchleife(i + 1,
                            summe + spielerDaten[spielerListe[i]].revealedNumber,
                            anzahl + 1)
         ELSE summeSchleife(i + 1, summe, anzahl)

\* Faulty variant of differenz that is 0 for numbers below the target, used
\* to show that C10 depends on the absolute difference.
differenzNurNachOben(number, target) ==
    IF number > target THEN number - target ELSE 0

differenz(number, target) ==
    IF number > target THEN number - target ELSE target - number

\* second loop: <<winningDistance, potentialWinners>> over spielerListe[i..]
RECURSIVE gewinnerSchleife(_, _, _, _)
gewinnerSchleife(i, target, distance, winners) ==
    IF i > Len(spielerListe) THEN <<distance, winners>>
    ELSE LET spielerAdresse == spielerListe[i]
             d == differenz(spielerDaten[spielerAdresse].revealedNumber, target)
         IN  IF spielerDaten[spielerAdresse].hasRevealed
             THEN IF d < distance
                  THEN gewinnerSchleife(i + 1, target, d, <<spielerAdresse>>)
                  ELSE IF d = distance
                  THEN gewinnerSchleife(i + 1, target, distance,
                                        Append(winners, spielerAdresse))
                  ELSE gewinnerSchleife(i + 1, target, distance, winners)
             ELSE gewinnerSchleife(i + 1, target, distance, winners)

\* Faulty variant of Ergebnis that names the first joined player the winner,
\* used to show that C35 depends on the winner coming from the revealed
\* players.
ErgebnisErsterSpieler(entropy) ==
    LET sums == summeSchleife(1, 0, 0)
        avg == sums[1] \div sums[2]
        target == (avg * 2) \div 3
        loop == gewinnerSchleife(1, target, UINT256_MAX, potentialWinners)
    IN  [averageValue |-> avg,
         targetValue |-> target,
         winningDistance |-> loop[1],
         potentialWinners |-> loop[2],
         winner |-> spielerListe[1]]

\* Faulty variant of Ergebnis that always takes the first of the tie list,
\* used to show that C11 depends on the entropy.
ErgebnisErsterDerListe(entropy) ==
    LET sums == summeSchleife(1, 0, 0)
        avg == sums[1] \div sums[2]
        target == (avg * 2) \div 3
        loop == gewinnerSchleife(1, target, UINT256_MAX, potentialWinners)
        pw == loop[2]
    IN  [averageValue |-> avg,
         targetValue |-> target,
         winningDistance |-> loop[1],
         potentialWinners |-> pw,
         winner |-> IF Len(pw) = 0 THEN winner ELSE pw[1]]

\* the values the calculation stores when at least one player has revealed
Ergebnis(entropy) ==
    LET sums == summeSchleife(1, 0, 0)
        avg == sums[1] \div sums[2]
        target == (avg * 2) \div 3
        loop == gewinnerSchleife(1, target, UINT256_MAX, potentialWinners)
        pw == loop[2]
    IN  [averageValue |-> avg,
         targetValue |-> target,
         winningDistance |-> loop[1],
         potentialWinners |-> pw,
         winner |-> IF Len(pw) = 1 THEN pw[1]
                    ELSE IF Len(pw) = 0 THEN winner
                    ELSE pw[(entropy % Len(pw)) + 1]]

berechneErgebnisCheck(sender) ==
    IF ~(sender = owner) THEN ErrNotOwner
    ELSE IF ~nurInPhase("Berechnung") THEN ErrPhase
    ELSE IF ~(summeSchleife(1, 0, 0)[2] > 0) THEN ErrNobodyRevealed
    ELSE IF ~(Len(Ergebnis(0).potentialWinners) > 0) THEN ErrNoPotentialWinner
    ELSE OK

berechneErgebnisUndErmittleGewinner(sender, entropy) ==
    /\ deployed
    /\ variant = "ts"
    /\ LET err == berechneErgebnisCheck(sender) IN
       IF err # OK
       THEN Revert("berechneErgebnisUndErmittleGewinner", sender, err)
       ELSE LET e == Ergebnis(entropy) IN
            /\ averageValue' = e.averageValue
            /\ targetValue' = e.targetValue
            /\ winningDistance' = e.winningDistance
            /\ potentialWinners' = e.potentialWinners
            /\ winner' = e.winner
            /\ aktuellePhase' = "Auszahlung"
            /\ last' = Call("berechneErgebnisUndErmittleGewinner", sender, OK)
            /\ UNCHANGED <<callStack, variant, deployed, WAGER_AMOUNT, SERVICE_FEE_PERCENTAGE,
                           spielerDaten, spielerListe, deadline, pot,
                           serviceFeeWithdrawn, now, balance, received,
                           paidPrize, paidFee>>

\* Faulty variant of calculateResultCheck without nurInPhase, used to show
\* that C34 depends on the phase guard.
calculateResultCheckOhnePhase(sender) == OK

\* Faulty variant of calculateResultCheck that refuses the call when nobody
\* has revealed, as the timestamp game does; used to show that C19 depends on
\* the cancellation branch.
calculateResultCheckMitReveal(sender) ==
    IF ~nurInPhase("Berechnung") THEN ErrPhase
    ELSE IF ~(summeSchleife(1, 0, 0)[2] > 0) THEN ErrNobodyRevealed
    ELSE OK

calculateResultCheck(sender) ==
    IF ~nurInPhase("Berechnung") THEN ErrPhase ELSE OK

calculateResult(sender, entropy) ==
    /\ deployed
    /\ variant = "bh"
    /\ LET err == calculateResultCheck(sender) IN
       IF err # OK THEN Revert("calculateResult", sender, err)
       ELSE IF summeSchleife(1, 0, 0)[2] = 0
       THEN /\ aktuellePhase' = "Abgebrochen"
            /\ last' = Call("calculateResult", sender, OK)
            /\ UNCHANGED <<callStack, variant, deployed, WAGER_AMOUNT, SERVICE_FEE_PERCENTAGE,
                           spielerDaten, spielerListe, deadline, pot,
                           serviceFeeWithdrawn, winner, potentialWinners,
                           averageValue, targetValue, winningDistance, now,
                           balance, received, paidPrize, paidFee>>
       ELSE LET e == Ergebnis(entropy) IN
            /\ averageValue' = e.averageValue
            /\ targetValue' = e.targetValue
            /\ winningDistance' = e.winningDistance
            /\ potentialWinners' = e.potentialWinners
            /\ winner' = e.winner
            /\ aktuellePhase' = "Auszahlung"
            /\ last' = Call("calculateResult", sender, OK)
            /\ UNCHANGED <<callStack, variant, deployed, WAGER_AMOUNT, SERVICE_FEE_PERCENTAGE,
                           spielerDaten, spielerListe, deadline, pot,
                           serviceFeeWithdrawn, now, balance, received,
                           paidPrize, paidFee>>

----------------------------------------------------------------------------
(* withdrawPrize *)

\* Faulty variant of withdrawPrizeCheck without the winner require, used to
\* show that C26 depends on it.
withdrawPrizeCheckOhneGewinner(sender) ==
    IF ~nurInPhase("Auszahlung") THEN ErrPhase
    ELSE IF spielerDaten[sender].hasWithdrawn THEN ErrPrizeWithdrawn
    ELSE OK

withdrawPrizeCheck(sender) ==
    IF ~nurInPhase("Auszahlung") THEN ErrPhase
    ELSE IF ~(sender = winner) THEN ErrNotWinner
    ELSE IF spielerDaten[sender].hasWithdrawn THEN ErrPrizeWithdrawn
    ELSE OK

\* Faulty variant of winnerPayout that forgets the service fee, used to show
\* that C3 depends on the fee being deducted.
winnerPayoutOhneGebuehr == pot

\* pot - serviceFee
winnerPayout == pot - serviceFee

\* Faulty variant of withdrawPrize that also takes the payout off `pot`, used
\* to show that C2 depends on `pot` staying the total of the stakes.
withdrawPrizeVerringertPot(sender, accepts) ==
    /\ deployed
    /\ LET err == withdrawPrizeCheck(sender)
           payout == pot - serviceFee
           sent == accepts /\ balance >= payout
       IN
       IF err # OK THEN Revert("withdrawPrize", sender, err)
       ELSE IF ~sent THEN Revert("withdrawPrize", sender, ErrPrizeTransfer)
       ELSE /\ spielerDaten' = [spielerDaten EXCEPT ![sender].hasWithdrawn = TRUE]
            /\ balance' = balance - payout
            /\ received' = [received EXCEPT ![sender] = @ + payout]
            /\ paidPrize' = paidPrize + payout
            /\ pot' = pot - payout
            /\ aktuellePhase' = IF variant = "bh" /\ serviceFeeWithdrawn
                                THEN "Abgeschlossen" ELSE aktuellePhase
            /\ last' = Call("withdrawPrize", sender, OK)
            /\ UNCHANGED <<callStack, variant, deployed, WAGER_AMOUNT, SERVICE_FEE_PERCENTAGE,
                           spielerListe, deadline, serviceFeeWithdrawn,
                           winner, potentialWinners, averageValue, targetValue,
                           winningDistance, now, paidFee>>

\* Faulty variant of withdrawPrize that completes the game in the timestamp
\* version too, used to show that C37 depends on the withdrawals of that
\* version leaving the phase alone.
withdrawPrizeMitAbschluss(sender, accepts) ==
    /\ deployed
    /\ LET err == withdrawPrizeCheck(sender)
           sent == accepts /\ balance >= winnerPayout
       IN
       IF err # OK THEN Revert("withdrawPrize", sender, err)
       ELSE IF ~sent THEN Revert("withdrawPrize", sender, ErrPrizeTransfer)
       ELSE /\ spielerDaten' = [spielerDaten EXCEPT ![sender].hasWithdrawn = TRUE]
            /\ balance' = balance - winnerPayout
            /\ received' = [received EXCEPT ![sender] = @ + winnerPayout]
            /\ paidPrize' = paidPrize + winnerPayout
            /\ aktuellePhase' = IF serviceFeeWithdrawn
                                THEN "Abgeschlossen" ELSE aktuellePhase
            /\ last' = Call("withdrawPrize", sender, OK)
            /\ UNCHANGED <<callStack, variant, deployed, WAGER_AMOUNT, SERVICE_FEE_PERCENTAGE,
                           spielerListe, deadline, pot, serviceFeeWithdrawn,
                           winner, potentialWinners, averageValue, targetValue,
                           winningDistance, now, paidFee>>

\* `accepts`: the recipient's fallback accepts the ether sent by call{value: }
withdrawPrize(sender, accepts) ==
    /\ deployed
    /\ LET err == withdrawPrizeCheck(sender)
           sent == accepts /\ balance >= winnerPayout
       IN
       IF err # OK THEN Revert("withdrawPrize", sender, err)
       ELSE IF ~sent THEN Revert("withdrawPrize", sender, ErrPrizeTransfer)
       ELSE /\ spielerDaten' = [spielerDaten EXCEPT ![sender].hasWithdrawn = TRUE]
            /\ balance' = balance - winnerPayout
            /\ received' = [received EXCEPT ![sender] = @ + winnerPayout]
            /\ paidPrize' = paidPrize + winnerPayout
            /\ aktuellePhase' = IF variant = "bh" /\ serviceFeeWithdrawn
                                THEN "Abgeschlossen" ELSE aktuellePhase
            /\ last' = Call("withdrawPrize", sender, OK)
            /\ UNCHANGED <<callStack, variant, deployed, WAGER_AMOUNT, SERVICE_FEE_PERCENTAGE,
                           spielerListe, deadline, pot, serviceFeeWithdrawn,
                           winner, potentialWinners, averageValue, targetValue,
                           winningDistance, now, paidFee>>

----------------------------------------------------------------------------
(* withdrawServiceFee *)

\* Faulty variant of withdrawServiceFeeCheck without nurInPhase, used to show
\* that C27 depends on the phase guard.
withdrawServiceFeeCheckOhnePhase(sender) ==
    IF ~(sender = owner) THEN ErrNotOwner
    ELSE IF serviceFeeWithdrawn THEN ErrFeeWithdrawn
    ELSE OK

\* Faulty variant of withdrawServiceFeeCheck without onlyOwner, used to show
\* that C25 depends on it.
withdrawServiceFeeCheckOhneOwner(sender) ==
    IF ~nurInPhase("Auszahlung") THEN ErrPhase
    ELSE IF serviceFeeWithdrawn THEN ErrFeeWithdrawn
    ELSE OK

withdrawServiceFeeCheck(sender) ==
    IF ~(sender = owner) THEN ErrNotOwner
    ELSE IF ~nurInPhase("Auszahlung") THEN ErrPhase
    ELSE IF serviceFeeWithdrawn THEN ErrFeeWithdrawn
    ELSE OK

\* Faulty variant of withdrawServiceFee that never closes the game, used to
\* show that C18 depends on the transition made by the second withdrawal.
withdrawServiceFeeOhneAbschluss(sender, accepts) ==
    /\ deployed
    /\ LET err == withdrawServiceFeeCheck(sender)
           sent == accepts /\ balance >= serviceFee
       IN
       IF err # OK THEN Revert("withdrawServiceFee", sender, err)
       ELSE IF serviceFee > 0 /\ ~sent
       THEN Revert("withdrawServiceFee", sender, ErrFeeTransfer)
       ELSE /\ serviceFeeWithdrawn' = TRUE
            /\ balance' = balance - serviceFee
            /\ received' = [received EXCEPT ![owner] = @ + serviceFee]
            /\ paidFee' = paidFee + serviceFee
            /\ last' = Call("withdrawServiceFee", sender, OK)
            /\ UNCHANGED <<callStack, variant, deployed, WAGER_AMOUNT, SERVICE_FEE_PERCENTAGE,
                           aktuellePhase, spielerDaten, spielerListe, deadline, pot,
                           winner, potentialWinners, averageValue, targetValue,
                           winningDistance, now, paidPrize>>

withdrawServiceFee(sender, accepts) ==
    /\ deployed
    /\ LET err == withdrawServiceFeeCheck(sender)
           sent == accepts /\ balance >= serviceFee
       IN
       IF err # OK THEN Revert("withdrawServiceFee", sender, err)
       ELSE IF serviceFee > 0 /\ ~sent
       THEN Revert("withdrawServiceFee", sender, ErrFeeTransfer)
       ELSE /\ serviceFeeWithdrawn' = TRUE
            /\ balance' = balance - serviceFee
            /\ received' = [received EXCEPT ![owner] = @ + serviceFee]
            /\ paidFee' = paidFee + serviceFee
            /\ aktuellePhase' =
                   IF variant = "bh" /\ winner # NoAddress
                                     /\ spielerDaten[winner].hasWithdrawn
                   THEN "Abgeschlossen" ELSE aktuellePhase
            /\ last' = Call("withdrawServiceFee", sender, OK)
            /\ UNCHANGED <<callStack, variant, deployed, WAGER_AMOUNT, SERVICE_FEE_PERCENTAGE,
                           spielerDaten, spielerListe, deadline, pot, winner,
                           potentialWinners, averageValue, targetValue,
                           winningDistance, now, paidPrize>>

----------------------------------------------------------------------------
(* reclaimWager (bh) *)

\* Faulty variant of reclaimWagerCheck without the hasWithdrawn guard, used to
\* show that C8 depends on it.
reclaimWagerCheckOhneFlag(sender) ==
    IF ~nurInPhase("Abgebrochen") THEN ErrPhase
    ELSE IF ~(spielerDaten[sender].wagerAmount > 0) THEN ErrReclaimNotPlayer
    ELSE OK

reclaimWagerCheck(sender) ==
    IF ~nurInPhase("Abgebrochen") THEN ErrPhase
    ELSE IF ~(spielerDaten[sender].wagerAmount > 0) THEN ErrReclaimNotPlayer
    ELSE IF spielerDaten[sender].hasWithdrawn THEN ErrAlreadyReclaimed
    ELSE OK

\* Faulty variant of reclaimWager that keeps hasWithdrawn set when the
\* transfer fails, used to show that C20 depends on the revert.
reclaimWagerOhneRollback(sender, accepts) ==
    /\ deployed
    /\ variant = "bh"
    /\ LET err == reclaimWagerCheck(sender)
           wager == spielerDaten[sender].wagerAmount
           sent == accepts /\ balance >= wager
       IN
       IF err # OK THEN Revert("reclaimWager", sender, err)
       ELSE /\ spielerDaten' = [spielerDaten EXCEPT ![sender].hasWithdrawn = TRUE]
            /\ balance' = IF sent THEN balance - wager ELSE balance
            /\ received' = [received EXCEPT ![sender] = IF sent THEN @ + wager ELSE @]
            /\ last' = Call("reclaimWager", sender,
                            IF sent THEN OK ELSE ErrRefundTransfer)
            /\ UNCHANGED <<callStack, variant, deployed, WAGER_AMOUNT, SERVICE_FEE_PERCENTAGE,
                           aktuellePhase, spielerListe, deadline, pot,
                           serviceFeeWithdrawn, winner, potentialWinners,
                           averageValue, targetValue, winningDistance, now,
                           paidPrize, paidFee>>

reclaimWager(sender, accepts) ==
    /\ deployed
    /\ variant = "bh"
    /\ LET err == reclaimWagerCheck(sender)
           wager == spielerDaten[sender].wagerAmount
           sent == accepts /\ balance >= wager
       IN
       IF err # OK THEN Revert("reclaimWager", sender, err)
       ELSE IF ~sent THEN Revert("reclaimWager", sender, ErrRefundTransfer)
       ELSE /\ spielerDaten' = [spielerDaten EXCEPT ![sender].hasWithdrawn = TRUE]
            /\ balance' = balance - wager
            /\ received' = [received EXCEPT ![sender] = @ + wager]
            /\ last' = Call("reclaimWager", sender, OK)
            /\ UNCHANGED <<callStack, variant, deployed, WAGER_AMOUNT, SERVICE_FEE_PERCENTAGE,
                           aktuellePhase, spielerListe, deadline, pot,
                           serviceFeeWithdrawn, winner, potentialWinners,
                           averageValue, targetValue, winningDistance, now,
                           paidPrize, paidFee>>

----------------------------------------------------------------------------
(* The chain: time passes between calls *)

\* Every guard of the contracts compares the clock with `deadline` only, and
\* a new deadline is set relative to the clock, so the clock is explored
\* until the deadline has passed.
Tick ==
    /\ deployed
    /\ now < deadline
    /\ \E d \in (IF variant = "ts" THEN SecondSteps ELSE BlockSteps) :
          now' = now + d
    /\ last' = Call("tick", NoAddress, OK)
    /\ UNCHANGED <<variant, contractVars, callStack>>

----------------------------------------------------------------------------

Next ==
    \/ \E a \in Joiners, v \in {WAGER_AMOUNT, WAGER_AMOUNT - 1} : beitreten(a, v)
    \/ \E a \in Addr : \E c \in CommitInputs(a) : commit(a, c)
    \/ \E a \in Addr : \E n \in RevealInputs(a), s \in Salts : reveal(a, n, s)
    \/ \E a \in Addr : forceStateTransition(a)
    \/ \E a \in Addr : advancePhase(a)
    \/ \E a \in Addr, e \in 0..MaxEntropy : berechneErgebnisUndErmittleGewinner(a, e)
    \/ \E a \in Addr, e \in 0..MaxEntropy : calculateResult(a, e)
    \/ \E a \in Addr, accepts \in BOOLEAN : withdrawPrize(a, accepts)
    \/ \E a \in Addr, accepts \in BOOLEAN : withdrawServiceFee(a, accepts)
    \/ \E a \in Addr, accepts \in BOOLEAN : reclaimWager(a, accepts)
    \/ Tick

Spec == Init /\ [][Next]_vars

----------------------------------------------------------------------------
(* The block-height game alone *)

InitBh == Init /\ variant = "bh"

NextBh ==
    \/ \E a \in Joiners, v \in {WAGER_AMOUNT, WAGER_AMOUNT - 1} : beitreten(a, v)
    \/ \E a \in Addr : \E c \in CommitInputs(a) : commit(a, c)
    \/ \E a \in Addr : \E n \in RevealInputs(a), s \in Salts : reveal(a, n, s)
    \/ \E a \in Addr : advancePhase(a)
    \/ \E a \in Addr, e \in 0..MaxEntropy : calculateResult(a, e)
    \/ \E a \in Addr, accepts \in BOOLEAN : withdrawPrize(a, accepts)
    \/ \E a \in Addr, accepts \in BOOLEAN : withdrawServiceFee(a, accepts)
    \/ \E a \in Addr, accepts \in BOOLEAN : reclaimWager(a, accepts)
    \/ Tick

SpecBh == InitBh /\ [][NextBh]_vars

\* Blocks keep being mined, and the third party p3, who is neither the owner
\* nor a player, keeps calling advancePhase and calculateResult.
FairBh ==
    /\ WF_vars(Tick)
    /\ WF_vars(advancePhase("p3"))
    /\ WF_vars(\E e \in 0..MaxEntropy : calculateResult("p3", e))

SpecBhFair == InitBh /\ [][NextBh]_vars /\ FairBh

\* Blocks keep being mined, transfers to the callers succeed, and the calls
\* keep being made by those entitled to them: advancePhase and calculateResult
\* by anyone (the third party p3 is enough), withdrawPrize by the winner,
\* withdrawServiceFee by the owner, reclaimWager by a player.
FairBhAlle ==
    /\ WF_vars(Tick)
    /\ WF_vars(advancePhase("p3"))
    /\ WF_vars(\E e \in 0..MaxEntropy : calculateResult("p3", e))
    /\ \A a \in Addr : WF_vars(withdrawPrize(a, TRUE))
    /\ WF_vars(withdrawServiceFee(owner, TRUE))
    /\ \A a \in Addr : WF_vars(reclaimWager(a, TRUE))

SpecBhAlleFair == InitBh /\ [][NextBh]_vars /\ FairBhAlle

----------------------------------------------------------------------------
(* The timestamp game with an owner who never calls anything *)

InitTs == Init /\ variant = "ts"

\* every caller but the owner; here p3 joins too, so that three players can
\* join without the owner
NichtOwner == Addr \ {owner}

NextTsOhneOwner ==
    \/ \E a \in NichtOwner, v \in {WAGER_AMOUNT, WAGER_AMOUNT - 1} : beitreten(a, v)
    \/ \E a \in NichtOwner : \E c \in CommitInputs(a) : commit(a, c)
    \/ \E a \in NichtOwner : \E n \in RevealInputs(a), s \in Salts : reveal(a, n, s)
    \/ \E a \in NichtOwner : forceStateTransition(a)
    \/ \E a \in NichtOwner, e \in 0..MaxEntropy :
           berechneErgebnisUndErmittleGewinner(a, e)
    \/ \E a \in NichtOwner, accepts \in BOOLEAN : withdrawPrize(a, accepts)
    \/ \E a \in NichtOwner, accepts \in BOOLEAN : withdrawServiceFee(a, accepts)
    \/ Tick

\* Time passes, and p3 keeps calling forceStateTransition and
\* berechneErgebnisUndErmittleGewinner.
FairTsOhneOwner ==
    /\ WF_vars(Tick)
    /\ WF_vars(forceStateTransition("p3"))
    /\ WF_vars(\E e \in 0..MaxEntropy : berechneErgebnisUndErmittleGewinner("p3", e))

SpecTsOhneOwner == InitTs /\ [][NextTsOhneOwner]_vars /\ FairTsOhneOwner

----------------------------------------------------------------------------
(* The timestamp game with everyone calling *)

NextTs ==
    \/ \E a \in Joiners, v \in {WAGER_AMOUNT, WAGER_AMOUNT - 1} : beitreten(a, v)
    \/ \E a \in Addr : \E c \in CommitInputs(a) : commit(a, c)
    \/ \E a \in Addr : \E n \in RevealInputs(a), s \in Salts : reveal(a, n, s)
    \/ \E a \in Addr : forceStateTransition(a)
    \/ \E a \in Addr, e \in 0..MaxEntropy : berechneErgebnisUndErmittleGewinner(a, e)
    \/ \E a \in Addr, accepts \in BOOLEAN : withdrawPrize(a, accepts)
    \/ \E a \in Addr, accepts \in BOOLEAN : withdrawServiceFee(a, accepts)
    \/ Tick

\* Time passes, transfers to the callers succeed, and the calls keep being
\* made by those entitled to them: forceStateTransition by the owner and by the
\* third party p3, berechneErgebnisUndErmittleGewinner and withdrawServiceFee
\* by the owner, withdrawPrize by the winner.
FairTsAlle ==
    /\ WF_vars(Tick)
    /\ WF_vars(forceStateTransition(owner))
    /\ WF_vars(forceStateTransition("p3"))
    /\ WF_vars(\E e \in 0..MaxEntropy : berechneErgebnisUndErmittleGewinner(owner, e))
    /\ \A a \in Addr : WF_vars(withdrawPrize(a, TRUE))
    /\ WF_vars(withdrawServiceFee(owner, TRUE))

SpecTsAlleFair == InitTs /\ [][NextTs]_vars /\ FairTsAlle

----------------------------------------------------------------------------
(* Payouts whose recipient calls back *)

\* The three payouts send ether with msg.sender.call{value: }("") or
\* owner().call{value: }(""), which runs the recipient's code before the
\* function continues.  Here a payout is two steps: the function up to and
\* including the call (...Enter), and the return of the call
\* (transferReturns).  Between the two the recipient makes calls of its own.

\* the err of `last` while the recipient of the call is running
Pending == "call{value: } running"

\* what a revert of the outer function restores
Saved ==
    [aktuellePhase |-> aktuellePhase, spielerDaten |-> spielerDaten,
     serviceFeeWithdrawn |-> serviceFeeWithdrawn, balance |-> balance,
     received |-> received, paidPrize |-> paidPrize, paidFee |-> paidFee]

Frame(op, to, err) == [op |-> op, to |-> to, err |-> err, saved |-> Saved]

\* the recipient whose code is running
Running == callStack[Len(callStack)].to

\* msg.sender of a call made now: anyone at top level, the running recipient
\* during a payout
MaySend(sender) == IF callStack = <<>> THEN TRUE ELSE sender = Running

withdrawPrizeEnter(sender) ==
    /\ deployed
    /\ MaySend(sender)
    /\ withdrawPrizeCheck(sender) = OK
    /\ balance >= winnerPayout
    /\ spielerDaten' = [spielerDaten EXCEPT ![sender].hasWithdrawn = TRUE]
    /\ balance' = balance - winnerPayout
    /\ received' = [received EXCEPT ![sender] = @ + winnerPayout]
    /\ paidPrize' = paidPrize + winnerPayout
    /\ callStack' = Append(callStack, Frame("withdrawPrize", sender, ErrPrizeTransfer))
    /\ last' = Call("withdrawPrize", sender, Pending)
    /\ UNCHANGED <<variant, deployed, WAGER_AMOUNT, SERVICE_FEE_PERCENTAGE,
                   aktuellePhase, spielerListe, deadline, pot,
                   serviceFeeWithdrawn, winner, potentialWinners, averageValue,
                   targetValue, winningDistance, now, paidFee>>

withdrawServiceFeeEnter(sender) ==
    /\ deployed
    /\ MaySend(sender)
    /\ withdrawServiceFeeCheck(sender) = OK
    /\ serviceFee > 0
    /\ balance >= serviceFee
    /\ serviceFeeWithdrawn' = TRUE
    /\ balance' = balance - serviceFee
    /\ received' = [received EXCEPT ![owner] = @ + serviceFee]
    /\ paidFee' = paidFee + serviceFee
    /\ callStack' = Append(callStack, Frame("withdrawServiceFee", owner, ErrFeeTransfer))
    /\ last' = Call("withdrawServiceFee", sender, Pending)
    /\ UNCHANGED <<variant, deployed, WAGER_AMOUNT, SERVICE_FEE_PERCENTAGE,
                   aktuellePhase, spielerDaten, spielerListe, deadline, pot,
                   winner, potentialWinners, averageValue, targetValue,
                   winningDistance, now, paidPrize>>

\* Faulty variant of reclaimWagerEnter that makes the call before setting
\* hasWithdrawn, used to show that C39 depends on the flag being set first.
reclaimWagerEnterOhneFlag(sender) ==
    /\ deployed
    /\ variant = "bh"
    /\ MaySend(sender)
    /\ reclaimWagerCheck(sender) = OK
    /\ balance >= spielerDaten[sender].wagerAmount
    /\ balance' = balance - spielerDaten[sender].wagerAmount
    /\ received' = [received EXCEPT ![sender] = @ + spielerDaten[sender].wagerAmount]
    /\ callStack' = Append(callStack, Frame("reclaimWager", sender, ErrRefundTransfer))
    /\ last' = Call("reclaimWager", sender, Pending)
    /\ UNCHANGED <<variant, deployed, WAGER_AMOUNT, SERVICE_FEE_PERCENTAGE,
                   aktuellePhase, spielerDaten, spielerListe, deadline, pot,
                   serviceFeeWithdrawn, winner, potentialWinners, averageValue,
                   targetValue, winningDistance, now, paidPrize, paidFee>>

reclaimWagerEnter(sender) ==
    /\ deployed
    /\ variant = "bh"
    /\ MaySend(sender)
    /\ reclaimWagerCheck(sender) = OK
    /\ balance >= spielerDaten[sender].wagerAmount
    /\ spielerDaten' = [spielerDaten EXCEPT ![sender].hasWithdrawn = TRUE]
    /\ balance' = balance - spielerDaten[sender].wagerAmount
    /\ received' = [received EXCEPT ![sender] = @ + spielerDaten[sender].wagerAmount]
    /\ callStack' = Append(callStack, Frame("reclaimWager", sender, ErrRefundTransfer))
    /\ last' = Call("reclaimWager", sender, Pending)
    /\ UNCHANGED <<variant, deployed, WAGER_AMOUNT, SERVICE_FEE_PERCENTAGE,
                   aktuellePhase, spielerListe, deadline, pot,
                   serviceFeeWithdrawn, winner, potentialWinners, averageValue,
                   targetValue, winningDistance, now, paidPrize, paidFee>>

\* the phase the function stores after require(sent): the block-height
\* game completes when the other payout has been made as well
PhaseAfterTransfer(op) ==
    IF variant = "bh" /\ op = "withdrawPrize" /\ serviceFeeWithdrawn
    THEN "Abgeschlossen"
    ELSE IF variant = "bh" /\ op = "withdrawServiceFee" /\ winner # NoAddress
                           /\ spielerDaten[winner].hasWithdrawn
    THEN "Abgeschlossen"
    ELSE aktuellePhase

\* The recipient's code returns.  `ok` is the `sent` of the call: with FALSE
\* require(sent) reverts the function, and with it everything the recipient's
\* own calls did.
transferReturns(ok) ==
    /\ callStack # <<>>
    /\ LET f == callStack[Len(callStack)] IN
       /\ callStack' = SubSeq(callStack, 1, Len(callStack) - 1)
       /\ IF ok
          THEN /\ aktuellePhase' = PhaseAfterTransfer(f.op)
               /\ last' = Call(f.op, f.to, OK)
               /\ UNCHANGED <<spielerDaten, serviceFeeWithdrawn, balance,
                              received, paidPrize, paidFee>>
          ELSE /\ aktuellePhase' = f.saved.aktuellePhase
               /\ spielerDaten' = f.saved.spielerDaten
               /\ serviceFeeWithdrawn' = f.saved.serviceFeeWithdrawn
               /\ balance' = f.saved.balance
               /\ received' = f.saved.received
               /\ paidPrize' = f.saved.paidPrize
               /\ paidFee' = f.saved.paidFee
               /\ last' = Call(f.op, f.to, f.err)
    /\ UNCHANGED <<variant, deployed, WAGER_AMOUNT, SERVICE_FEE_PERCENTAGE,
                   spielerListe, deadline, pot, winner, potentialWinners,
                   averageValue, targetValue, winningDistance, now>>

\* Calls arrive from anyone while no payout is under way; while one is, the
\* only code running is the recipient's, which calls the withdrawals and the
\* phase functions, or returns.
NextReentrant ==
    \/ callStack = <<>> /\ Next
    \/ \E a \in Addr : withdrawPrizeEnter(a)
    \/ \E a \in Addr : withdrawServiceFeeEnter(a)
    \/ \E a \in Addr : reclaimWagerEnter(a)
    \/ callStack # <<>> /\ \E accepts \in BOOLEAN : withdrawPrize(Running, accepts)
    \/ callStack # <<>> /\ \E accepts \in BOOLEAN : withdrawServiceFee(Running, accepts)
    \/ callStack # <<>> /\ \E accepts \in BOOLEAN : reclaimWager(Running, accepts)
    \/ callStack # <<>> /\ forceStateTransition(Running)
    \/ callStack # <<>> /\ advancePhase(Running)
    \/ \E ok \in BOOLEAN : transferReturns(ok)

SpecReentrant == Init /\ [][NextReentrant]_vars

----------------------------------------------------------------------------
(* Definitions used by the properties *)

joined(a) == spielerDaten[a].wagerAmount > 0
Revealed == {a \in Addr : spielerDaten[a].hasRevealed}
Calculated == aktuellePhase \in {"Auszahlung", "Abgeschlossen"}

RECURSIVE SumOver(_, _)
SumOver(S, f) ==
    IF S = {} THEN 0
    ELSE LET x == CHOOSE y \in S : TRUE IN f[x] + SumOver(S \ {x}, f)

Abs(x) == IF x < 0 THEN -x ELSE x

----------------------------------------------------------------------------
(* C1: in both contracts pot equals WAGER_AMOUNT times the number of joined *)
(* players (the length of spielerListe) in every reachable state.           *)
C1_PotIsStakeTimesPlayers ==
    deployed => pot = WAGER_AMOUNT * Len(spielerListe)

\* registration has ended with three joins in the block-height game
C1_Witness ==
    /\ variant = "bh"
    /\ aktuellePhase = "Commit"
    /\ Len(spielerListe) = 3
    /\ pot = 3 * WAGER_AMOUNT

----------------------------------------------------------------------------
(* C2: in both contracts the total value transferred out by successful      *)
(* withdrawPrize and withdrawServiceFee calls never exceeds pot.            *)
C2_PayoutsWithinPot ==
    paidPrize + paidFee <= pot

\* prize and fee have both been paid, and together they are the whole pot
C2_Witness ==
    /\ variant = "ts"
    /\ paidPrize > 0
    /\ paidFee > 0
    /\ paidPrize + paidFee = pot

----------------------------------------------------------------------------
(* C3: in both contracts a successful withdrawPrize transfers exactly       *)
(* pot - floor(pot * SERVICE_FEE_PERCENTAGE / 100) to the winner, and it    *)
(* never succeeds after an earlier success in the same game.                *)
C3_PrizeExactAndOnce ==
    [][(last'.op = "withdrawPrize" /\ last'.err = OK) =>
          /\ paidPrize = 0
          /\ ~spielerDaten[winner].hasWithdrawn
          /\ received'[winner] - received[winner]
                 = pot - ((pot * SERVICE_FEE_PERCENTAGE) \div 100)
          /\ paidPrize' = pot - ((pot * SERVICE_FEE_PERCENTAGE) \div 100)
          /\ balance' = balance - (pot - ((pot * SERVICE_FEE_PERCENTAGE) \div 100))
      ]_vars

\* the winner has just been paid, in the block-height game
C3_Witness ==
    /\ variant = "bh"
    /\ last = Call("withdrawPrize", winner, OK)
    /\ paidPrize > 0
    /\ received[winner] >= paidPrize

----------------------------------------------------------------------------
(* C4 as stated: a beitreten() call with the exact stake by an identity     *)
(* that has already joined is rejected with "Spieler hat bereits            *)
(* teilgenommen." in whatever phase the game is (taken here with the        *)
(* current deadline not yet reached).                                       *)
C4_DuplicateReasonInEveryPhase ==
    [][last'.op = "beitreten" =>
          \A a \in Addr :
              (joined(a) /\ now < deadline /\ beitreten(a, WAGER_AMOUNT))
                  => last'.err = ErrAlreadyJoined
      ]_vars

(* C4 amended: a beitreten() call by an identity that has already joined    *)
(* always fails and changes nothing; the reason is the duplicate-join one   *)
(* exactly when the phase is Registrierung, the deadline is not reached and *)
(* the payment equals WAGER_AMOUNT; in every other phase it is the          *)
(* phase-mismatch reason, in Registrierung at or after the deadline the     *)
(* deadline reason, and with a wrong payment the wrong-stake reason.        *)
C4_SecondJoinAlwaysFails ==
    [][last'.op = "beitreten" =>
        \A a \in Addr : \A v \in {WAGER_AMOUNT, WAGER_AMOUNT - 1} :
          (joined(a) /\ beitreten(a, v)) =>
              /\ last'.err # OK
              /\ UNCHANGED contractVars
              /\ last'.err =
                   IF aktuellePhase # "Registrierung" THEN ErrPhase
                   ELSE IF now >= deadline THEN ErrDeadlineExpired
                   ELSE IF v # WAGER_AMOUNT THEN ErrWrongWager
                   ELSE ErrAlreadyJoined
      ]_vars

\* a second join was rejected as a duplicate
C4_Witness ==
    /\ last = Call("beitreten", "p1", ErrAlreadyJoined)
    /\ joined("p1")

----------------------------------------------------------------------------
(* C5 as stated: for a caller who has committed and not revealed, in Reveal *)
(* before the deadline, reveal(number, salt) succeeds iff                   *)
(* H(number, salt, caller) is the stored commitment, and every other pair   *)
(* fails with the commitment-mismatch reason, leaving hasRevealed false and *)
(* revealedNumber unchanged.                                                *)
C5_RevealIffHashMatches ==
    [][(last'.op = "reveal" /\ aktuellePhase = "Reveal") =>
        \A a \in Addr : \A n \in RevealInputs(a), s \in Salts :
          (/\ spielerDaten[a].hasCommitted
           /\ ~spielerDaten[a].hasRevealed
           /\ aktuellePhase = "Reveal"
           /\ now < deadline
           /\ reveal(a, n, s)) =>
              /\ (last'.err = OK) <=> (H(n, s, a) = spielerDaten[a].commitment)
              /\ (H(n, s, a) # spielerDaten[a].commitment) =>
                    /\ last'.err = ErrInvalidReveal
                    /\ ~spielerDaten'[a].hasRevealed
                    /\ spielerDaten'[a].revealedNumber = spielerDaten[a].revealedNumber
      ]_vars

(* C5 amended: for such a caller, reveal(number, salt) with number <= 1000  *)
(* succeeds iff H(number, salt, caller) is the stored commitment and        *)
(* otherwise fails with the commitment-mismatch reason; with number > 1000  *)
(* it fails with the range reason "Zahl muss zwischen 0 und 1000 liegen.";  *)
(* every failure leaves hasRevealed false and revealedNumber unchanged, and *)
(* a success stores number and sets hasRevealed.                            *)
C5_RevealIffHashMatchesInRange ==
    [][(last'.op = "reveal" /\ aktuellePhase = "Reveal") =>
        \A a \in Addr : \A n \in RevealInputs(a), s \in Salts :
          (/\ spielerDaten[a].hasCommitted
           /\ ~spielerDaten[a].hasRevealed
           /\ aktuellePhase = "Reveal"
           /\ now < deadline
           /\ reveal(a, n, s)) =>
              /\ n <= 1000 =>
                    /\ (last'.err = OK) <=> (H(n, s, a) = spielerDaten[a].commitment)
                    /\ (last'.err # OK) => last'.err = ErrInvalidReveal
              /\ n > 1000 => last'.err = ErrNumberRange
              /\ (last'.err # OK) =>
                    /\ ~spielerDaten'[a].hasRevealed
                    /\ spielerDaten'[a].revealedNumber = spielerDaten[a].revealedNumber
              /\ (last'.err = OK) =>
                    /\ spielerDaten'[a].hasRevealed
                    /\ spielerDaten'[a].revealedNumber = n
      ]_vars

\* a reveal with the wrong salt or number was rejected, and another player
\* has revealed successfully
C5_Witness ==
    /\ last = Call("reveal", "p1", ErrInvalidReveal)
    /\ spielerDaten["p1"].hasCommitted
    /\ ~spielerDaten["p1"].hasRevealed
    /\ spielerDaten["owner"].hasRevealed

----------------------------------------------------------------------------
(* C6: in both contracts, while the phase is Registrierung, Commit or       *)
(* Reveal and the deadline is not reached, a phase-advance call             *)
(* (forceStateTransition / advancePhase) by a caller who is not the owner   *)
(* fails with the deadline-not-reached reason and leaves the phase and the  *)
(* deadline unchanged.                                                      *)
C6_EarlyAdvanceRejected ==
    [][(last'.op \in {"forceStateTransition", "advancePhase"}
          /\ aktuellePhase \in {"Registrierung", "Commit", "Reveal"}
          /\ now < deadline) =>
        \A a \in Addr \ {owner} :
          (forceStateTransition(a) \/ advancePhase(a)) =>
              /\ last'.err = IF variant = "ts" THEN ErrTooEarlyTs ELSE ErrTooEarlyBh
              /\ aktuellePhase' = aktuellePhase
              /\ deadline' = deadline
      ]_vars

\* a non-owner's forceStateTransition was rejected as too early in Commit
C6_Witness ==
    /\ variant = "ts"
    /\ aktuellePhase = "Commit"
    /\ now < deadline
    /\ last = Call("forceStateTransition", "p1", ErrTooEarlyTs)

----------------------------------------------------------------------------
(* C7: in the block-height game, if fewer than 3 players have joined when   *)
(* the registration deadline block is reached, the next advancePhase call   *)
(* by any caller moves the game to Abgebrochen and never to Commit.         *)
C7_TooFewPlayersCancels ==
    [][(last'.op = "advancePhase"
          /\ variant = "bh"
          /\ aktuellePhase = "Registrierung"
          /\ now >= deadline
          /\ Cardinality({a \in Addr : joined(a)}) < 3) =>
        \A a \in Addr :
          advancePhase(a) =>
              /\ last'.err = OK
              /\ aktuellePhase' = "Abgebrochen"
      ]_vars

\* the game was cancelled by advancePhase with two players joined
C7_Witness ==
    /\ variant = "bh"
    /\ aktuellePhase = "Abgebrochen"
    /\ last = Call("advancePhase", "p3", OK)
    /\ Len(spielerListe) = 2

----------------------------------------------------------------------------
(* C8 as stated: in the block-height game, once the game is Abgebrochen,    *)
(* each joined player's first reclaimWager succeeds and refunds exactly     *)
(* WAGER_AMOUNT, every later reclaimWager by the same player fails, and     *)
(* reclaimWager by an identity that never joined fails.                     *)
C8_FirstReclaimSucceeds ==
    [][(last'.op = "reclaimWager" /\ aktuellePhase = "Abgebrochen") =>
        \A a \in Addr : \A accepts \in BOOLEAN :
          reclaimWager(a, accepts) =>
              /\ (joined(a) /\ received[a] = 0) =>
                    /\ last'.err = OK
                    /\ received'[a] = WAGER_AMOUNT
              /\ (joined(a) /\ received[a] > 0) => last'.err # OK
              /\ ~joined(a) => last'.err # OK
      ]_vars

(* C8 amended: in the block-height game, once the game is Abgebrochen,      *)
(* each joined player's first reclaimWager succeeds and refunds exactly     *)
(* WAGER_AMOUNT provided the player accepts the transfer (otherwise the     *)
(* call fails with "Rueckzahlung fehlgeschlagen." and nothing changes);     *)
(* every reclaimWager by the same player after a successful one fails, and  *)
(* reclaimWager by an identity that never joined fails.                     *)
C8_FirstAcceptedReclaimSucceeds ==
    [][(last'.op = "reclaimWager" /\ aktuellePhase = "Abgebrochen") =>
        \A a \in Addr : \A accepts \in BOOLEAN :
          reclaimWager(a, accepts) =>
              /\ (joined(a) /\ received[a] = 0 /\ accepts) =>
                    /\ last'.err = OK
                    /\ received'[a] = WAGER_AMOUNT
                    /\ balance' = balance - WAGER_AMOUNT
                    /\ aktuellePhase' = "Abgebrochen"
              /\ (joined(a) /\ received[a] = 0 /\ ~accepts) =>
                    /\ last'.err = ErrRefundTransfer
                    /\ UNCHANGED contractVars
              /\ (joined(a) /\ received[a] > 0) =>
                    /\ last'.err = ErrAlreadyReclaimed
                    /\ UNCHANGED contractVars
              /\ ~joined(a) =>
                    /\ last'.err = ErrReclaimNotPlayer
                    /\ UNCHANGED contractVars
      ]_vars

\* a game cancelled in Berechnung (three players, nobody revealed): a player
\* who already has the stake back was rejected, the others not yet refunded
C8_Witness ==
    /\ variant = "bh"
    /\ aktuellePhase = "Abgebrochen"
    /\ Len(spielerListe) = 3
    /\ last = Call("reclaimWager", "p1", ErrAlreadyReclaimed)
    /\ received["p1"] = WAGER_AMOUNT
    /\ received["p2"] = 0

----------------------------------------------------------------------------
(* C9: in both contracts, after a successful result calculation with        *)
(* n >= 1 revealed players, averageValue = floor(S / n) where S is the sum  *)
(* of revealedNumber over exactly the players with hasRevealed, and         *)
(* targetValue = floor(averageValue * 2 / 3).                               *)
C9_AverageAndTarget ==
    Calculated =>
        /\ Cardinality(Revealed) >= 1
        /\ averageValue =
               SumOver(Revealed, [a \in Addr |-> spielerDaten[a].revealedNumber])
                   \div Cardinality(Revealed)
        /\ targetValue = (averageValue * 2) \div 3

\* revealed numbers 100, 200, 300 give average 200 and target 133
C9_Witness ==
    /\ aktuellePhase = "Auszahlung"
    /\ spielerDaten["owner"].hasRevealed /\ spielerDaten["owner"].revealedNumber = 100
    /\ spielerDaten["p1"].hasRevealed /\ spielerDaten["p1"].revealedNumber = 200
    /\ spielerDaten["p2"].hasRevealed /\ spielerDaten["p2"].revealedNumber = 300
    /\ averageValue = 200
    /\ targetValue = 133

----------------------------------------------------------------------------
(* C10: in both contracts, after a successful result calculation,           *)
(* winningDistance is the minimum of |revealedNumber - targetValue| over    *)
(* the revealed players, the winner is a revealed player at that distance,  *)
(* and when exactly one revealed player attains the minimum the winner is   *)
(* that player.                                                             *)
C10_WinnerAtMinimumDistance ==
    Calculated =>
        LET dist(a) == Abs(spielerDaten[a].revealedNumber - targetValue)
            closest == {a \in Revealed : \A b \in Revealed : dist(a) <= dist(b)}
        IN  /\ winner \in Revealed
            /\ \A b \in Revealed : winningDistance <= dist(b)
            /\ dist(winner) = winningDistance
            /\ winner \in closest
            /\ Cardinality(closest) = 1 => closest = {winner}

\* among 100, 200, 300 the player who revealed 100 wins at distance 33
C10_Witness ==
    /\ aktuellePhase = "Auszahlung"
    /\ Revealed = {"owner", "p1", "p2"}
    /\ spielerDaten["p1"].revealedNumber = 200
    /\ winner = "owner"
    /\ spielerDaten[winner].revealedNumber = 100
    /\ winningDistance = 33

----------------------------------------------------------------------------
\* the revealed players closest to `target`, in join order
TiedPlayers(target) ==
    LET dist(a) == Abs(spielerDaten[a].revealedNumber - target)
        closest(a) == /\ spielerDaten[a].hasRevealed
                      /\ \A b \in Revealed : dist(a) <= dist(b)
    IN  SelectSeq(spielerListe, closest)

(* C11: in both contracts, when two or more revealed players tie for the    *)
(* minimum distance, the calculation selects exactly one of them: the entry *)
(* of the join-ordered tie list at index entropy mod tie-list size; so the  *)
(* winner is a function of the game state and the entropy value.            *)
C11_TieBrokenByEntropy ==
    [][(last'.op \in {"calculateResult", "berechneErgebnisUndErmittleGewinner"}
          /\ last'.err = OK /\ aktuellePhase' = "Auszahlung") =>
        \A a \in Addr : \A e \in 0..MaxEntropy :
          (calculateResult(a, e) \/ berechneErgebnisUndErmittleGewinner(a, e)) =>
              LET tied == TiedPlayers(targetValue')
              IN  Len(tied) >= 2 =>
                    /\ potentialWinners' = tied
                    /\ winner' = tied[(e % Len(tied)) + 1]
                    /\ Cardinality({i \in 1..Len(tied) : tied[i] = winner'}) = 1
      ]_vars

\* owner and p1 tie on 100 and the entropy picked the second of the tie list
C11_Witness ==
    /\ aktuellePhase = "Auszahlung"
    /\ Len(potentialWinners) = 2
    /\ winner = potentialWinners[2]
    /\ spielerDaten["owner"].revealedNumber = 100
    /\ spielerDaten["p1"].revealedNumber = 100
    /\ spielerDaten["owner"].hasRevealed /\ spielerDaten["p1"].hasRevealed

----------------------------------------------------------------------------
\* the phase changes the specification allows in the block-height game
PhaseEdges ==
    {<<"Registrierung", "Commit">>, <<"Registrierung", "Abgebrochen">>,
     <<"Commit", "Reveal">>, <<"Reveal", "Berechnung">>,
     <<"Berechnung", "Auszahlung">>, <<"Berechnung", "Abgebrochen">>,
     <<"Auszahlung", "Abgeschlossen">>}

(* C12: in the block-height game every change of aktuellePhase made by any  *)
(* operation is one of the edges Registrierung->Commit,                     *)
(* Registrierung->Abgebrochen, Commit->Reveal, Reveal->Berechnung,          *)
(* Berechnung->Auszahlung, Berechnung->Abgebrochen,                         *)
(* Auszahlung->Abgeschlossen; so the phase never moves backwards and never  *)
(* changes once it is Abgeschlossen or Abgebrochen.                         *)
C12_PhaseOnlyAlongEdges ==
    [][(variant = "bh" /\ aktuellePhase' # aktuellePhase) =>
          <<aktuellePhase, aktuellePhase'>> \in PhaseEdges
      ]_vars

\* a game that went through every phase and was completed by the fee withdrawal
C12_Witness ==
    /\ variant = "bh"
    /\ aktuellePhase = "Abgeschlossen"
    /\ last = Call("withdrawServiceFee", owner, OK)

----------------------------------------------------------------------------
(* C13: in the block-height game, if blocks keep being mined and a third    *)
(* party (neither owner nor player) keeps calling advancePhase and          *)
(* calculateResult, then from every reachable state in Registrierung,       *)
(* Commit, Reveal or Berechnung the game eventually reaches Auszahlung or   *)
(* Abgebrochen, whatever the owner and the players do or fail to do.        *)
C13_ThirdPartyUnfreezes ==
    (deployed /\ aktuellePhase \in {"Registrierung", "Commit", "Reveal", "Berechnung"})
        ~> (aktuellePhase \in {"Auszahlung", "Abgebrochen"})

\* the calculation has been run after the reveal deadline block passed
C13_Witness ==
    /\ variant = "bh"
    /\ aktuellePhase = "Auszahlung"
    /\ last = Call("calculateResult", "p3", OK)
    /\ now >= REGISTRATION_BLOCKS + COMMIT_BLOCKS + REVEAL_BLOCKS

----------------------------------------------------------------------------
(* C14 as stated: in the timestamp game, with at least 3 players joined and *)
(* the owner never calling any operation, non-owner callers who keep        *)
(* calling as time passes bring the game from Registrierung to Auszahlung.  *)
C14_NonOwnersReachPayout ==
    (deployed /\ aktuellePhase = "Registrierung" /\ Len(spielerListe) >= 3)
        ~> (aktuellePhase = "Auszahlung")

(* C14, what the code does instead: without a call by the owner the         *)
(* timestamp game never reaches Auszahlung; non-owners bring it as far as   *)
(* Berechnung, where berechneErgebnisUndErmittleGewinner is onlyOwner.      *)
C14_NoPayoutWithoutOwner ==
    aktuellePhase \notin {"Auszahlung", "Abgeschlossen"}

\* non-owners brought the game to Berechnung with a number revealed, and the
\* calculation requested by a non-owner was refused
C14_Witness ==
    /\ variant = "ts"
    /\ aktuellePhase = "Berechnung"
    /\ Revealed # {}
    /\ Len(spielerListe) >= 3
    /\ last = Call("berechneErgebnisUndErmittleGewinner", "p3", ErrNotOwner)

----------------------------------------------------------------------------
(* C15: in both contracts no reachable state has the phase Commit, Reveal,  *)
(* Berechnung, Auszahlung or Abgeschlossen while fewer than 3 distinct      *)
(* identities have joined, also when the owner of the timestamp game forces *)
(* the transition before the deadline.                                      *)
C15_QuorumBeforePlay ==
    aktuellePhase \in {"Commit", "Reveal", "Berechnung", "Auszahlung", "Abgeschlossen"}
        => Cardinality({a \in Addr : joined(a)}) >= 3

\* the owner has forced Registrierung->Commit before the deadline, with three
\* players joined
C15_Witness ==
    /\ variant = "ts"
    /\ aktuellePhase = "Commit"
    /\ now < REGISTRATION_DURATION
    /\ last = Call("forceStateTransition", owner, OK)
    /\ Cardinality({a \in Addr : joined(a)}) = 3

----------------------------------------------------------------------------
(* C16: in both contracts, in every reachable state and for every identity: *)
(* hasRevealed implies hasCommitted, hasCommitted implies wagerAmount > 0,  *)
(* an identity is in spielerListe exactly when its wagerAmount > 0, and it  *)
(* is there at most once.                                                   *)
C16_PlayerRecordConsistent ==
    \A a \in Addr :
        /\ spielerDaten[a].hasRevealed => spielerDaten[a].hasCommitted
        /\ spielerDaten[a].hasCommitted => spielerDaten[a].wagerAmount > 0
        /\ (\E i \in 1..Len(spielerListe) : spielerListe[i] = a)
               <=> spielerDaten[a].wagerAmount > 0
        /\ Cardinality({i \in 1..Len(spielerListe) : spielerListe[i] = a}) <= 1

\* a joined player has committed and revealed while another only joined
C16_Witness ==
    /\ spielerDaten["p1"].hasRevealed
    /\ spielerDaten["p1"].hasCommitted
    /\ spielerDaten["p2"].wagerAmount > 0
    /\ ~spielerDaten["p2"].hasCommitted
    /\ spielerDaten["p3"].wagerAmount = 0
    /\ Len(spielerListe) = 3

----------------------------------------------------------------------------
(* C17: in both contracts the one-shot flags are one-way: once a player's   *)
(* hasWithdrawn, hasCommitted or hasRevealed, or serviceFeeWithdrawn, is    *)
(* true after a successful operation, no later operation sets it back to    *)
(* false.                                                                   *)
C17_FlagsOneWay ==
    [][/\ serviceFeeWithdrawn => serviceFeeWithdrawn'
       /\ \A a \in Addr :
            /\ spielerDaten[a].hasWithdrawn => spielerDaten'[a].hasWithdrawn
            /\ spielerDaten[a].hasCommitted => spielerDaten'[a].hasCommitted
            /\ spielerDaten[a].hasRevealed => spielerDaten'[a].hasRevealed
      ]_vars

\* all four kinds of flag are set, and a later call has been rejected
C17_Witness ==
    /\ serviceFeeWithdrawn
    /\ winner # NoAddress
    /\ spielerDaten[winner].hasWithdrawn
    /\ spielerDaten[winner].hasCommitted
    /\ spielerDaten[winner].hasRevealed
    /\ last.op \in {"beitreten", "commit", "reveal", "withdrawPrize", "reclaimWager"}
    /\ last.err # OK

----------------------------------------------------------------------------
\* the service fee and the winner's prize have both been withdrawn
BothWithdrawn ==
    /\ serviceFeeWithdrawn
    /\ winner # NoAddress
    /\ spielerDaten[winner].hasWithdrawn

(* C18: in the block-height game, after every completed operation the      *)
(* phase is Abgeschlossen if and only if serviceFeeWithdrawn and the        *)
(* winner's hasWithdrawn are both true (so it is never still Auszahlung     *)
(* then); the step into Abgeschlossen is the successful withdrawPrize or    *)
(* withdrawServiceFee that comes second; and both orders end in the same    *)
(* state: prize and fee paid once each and nothing left in the contract.    *)
C18_CompletedBySecondWithdrawal ==
    /\ [](variant = "bh" => (aktuellePhase = "Abgeschlossen" <=> BothWithdrawn))
    /\ [][(variant = "bh" /\ aktuellePhase # "Abgeschlossen"
                          /\ aktuellePhase' = "Abgeschlossen") =>
            /\ aktuellePhase = "Auszahlung"
            /\ last'.err = OK
            /\ \/ /\ last'.op = "withdrawPrize"
                  /\ serviceFeeWithdrawn
                  /\ ~spielerDaten[winner].hasWithdrawn
               \/ /\ last'.op = "withdrawServiceFee"
                  /\ ~serviceFeeWithdrawn
                  /\ spielerDaten[winner].hasWithdrawn
         ]_vars
    /\ []((variant = "bh" /\ aktuellePhase = "Abgeschlossen") =>
            LET fee == (pot * SERVICE_FEE_PERCENTAGE) \div 100 IN
            /\ paidFee = fee
            /\ paidPrize = pot - fee
            /\ balance = 0
            /\ \A a \in Addr :
                 received[a] = (IF a = winner THEN pot - fee ELSE 0)
                                + (IF a = owner THEN fee ELSE 0)
            /\ \A a \in Addr : spielerDaten[a].hasWithdrawn <=> a = winner)

\* the fee was withdrawn first and the winner's withdrawal closed the game
C18_Witness ==
    /\ variant = "bh"
    /\ aktuellePhase = "Abgeschlossen"
    /\ last = Call("withdrawPrize", winner, OK)
    /\ BothWithdrawn

----------------------------------------------------------------------------
(* C19: in the block-height game, calculateResult called in Berechnung when *)
(* no player has hasRevealed does not fail: it moves the game to            *)
(* Abgebrochen and leaves winner, averageValue, targetValue and             *)
(* winningDistance at their unset (zero) values.                            *)
C19_NoRevealCancels ==
    [][(last'.op = "calculateResult" /\ aktuellePhase = "Berechnung"
                                     /\ Revealed = {}) =>
        \A a \in Addr : \A e \in 0..MaxEntropy :
          calculateResult(a, e) =>
              /\ last'.err = OK
              /\ aktuellePhase' = "Abgebrochen"
              /\ winner' = NoAddress
              /\ averageValue' = 0
              /\ targetValue' = 0
              /\ winningDistance' = 0
              /\ potentialWinners' = <<>>
      ]_vars

\* three players joined, nobody revealed, and the calculation cancelled the game
C19_Witness ==
    /\ variant = "bh"
    /\ aktuellePhase = "Abgebrochen"
    /\ Len(spielerListe) = 3
    /\ Revealed = {}
    /\ winner = NoAddress
    /\ last = Call("calculateResult", "p3", OK)

----------------------------------------------------------------------------
(* C20: in both contracts, if the fund transfer to the recipient fails      *)
(* inside withdrawPrize, withdrawServiceFee or (block-height game)          *)
(* reclaimWager, the call fails and every state variable is as before the   *)
(* call, including hasWithdrawn / serviceFeeWithdrawn and the phase, so     *)
(* that a retry of the same withdrawal, once the recipient accepts the      *)
(* transfer, passes all its checks again.                                   *)
C20_FailedTransferChangesNothing ==
    [][(last'.op \in {"withdrawPrize", "withdrawServiceFee", "reclaimWager"}) =>
        \A a \in Addr :
          /\ (withdrawPrizeCheck(a) = OK /\ withdrawPrize(a, FALSE)) =>
                /\ last'.err = ErrPrizeTransfer
                /\ UNCHANGED contractVars
                /\ ~spielerDaten'[a].hasWithdrawn
                /\ withdrawPrizeCheck(a)' = OK
                /\ balance' >= winnerPayout'
          /\ (withdrawServiceFeeCheck(a) = OK /\ serviceFee > 0
                                            /\ withdrawServiceFee(a, FALSE)) =>
                /\ last'.err = ErrFeeTransfer
                /\ UNCHANGED contractVars
                /\ ~serviceFeeWithdrawn'
                /\ withdrawServiceFeeCheck(a)' = OK
                /\ balance' >= serviceFee'
          /\ (reclaimWagerCheck(a) = OK /\ reclaimWager(a, FALSE)) =>
                /\ last'.err = ErrRefundTransfer
                /\ UNCHANGED contractVars
                /\ ~spielerDaten'[a].hasWithdrawn
                /\ reclaimWagerCheck(a)' = OK
                /\ balance' >= spielerDaten'[a].wagerAmount
      ]_vars

\* the fee is already withdrawn, the transfer of the prize to the winner
\* failed, and the winner's flag and the phase are as before
C20_Witness ==
    /\ aktuellePhase = "Auszahlung"
    /\ serviceFeeWithdrawn
    /\ last = Call("withdrawPrize", winner, ErrPrizeTransfer)
    /\ ~spielerDaten[winner].hasWithdrawn
    /\ balance = winnerPayout

----------------------------------------------------------------------------
(* C21: in both contracts construction fails when the stake amount is 0 or  *)
(* the fee percentage exceeds 100; a successfully constructed game starts   *)
(* in Registrierung with an active registration deadline, and its stake     *)
(* amount (> 0) and fee percentage (0..100) never change afterwards.        *)
C21_ConstructionValidated ==
    /\ deployed => /\ aktuellePhase = "Registrierung"
                   /\ now < deadline
                   /\ last = Call("constructor", owner, OK)
    /\ [](deployed => (WAGER_AMOUNT > 0 /\ SERVICE_FEE_PERCENTAGE \in 0..100))
    /\ [](~deployed => /\ last.op = "constructor"
                       /\ last.err \in {ErrWagerZero, ErrFeeTooHigh})
    /\ [][/\ WAGER_AMOUNT' = WAGER_AMOUNT
          /\ SERVICE_FEE_PERCENTAGE' = SERVICE_FEE_PERCENTAGE
          /\ deployed' = deployed]_vars

\* a game constructed with stake 5 and fee 10 has been played up to the payout
C21_Witness ==
    /\ deployed
    /\ WAGER_AMOUNT = 5
    /\ SERVICE_FEE_PERCENTAGE = 10
    /\ aktuellePhase = "Auszahlung"
    /\ pot = 3 * WAGER_AMOUNT

----------------------------------------------------------------------------
(* C22: in both contracts beitreten() succeeds only if the phase is         *)
(* Registrierung, the registration deadline is not reached, the payment     *)
(* equals WAGER_AMOUNT and the caller has not joined; a join attempted in   *)
(* Registrierung at or after the deadline is rejected with the              *)
(* deadline-expired reason; every rejected join leaves pot, the player list *)
(* and all player records unchanged.                                        *)
C22_JoinGuards ==
    [][last'.op = "beitreten" =>
        \A a \in Addr : \A v \in {WAGER_AMOUNT, WAGER_AMOUNT - 1} :
          beitreten(a, v) =>
              /\ (last'.err = OK) <=>
                    (/\ aktuellePhase = "Registrierung"
                     /\ now < deadline
                     /\ v = WAGER_AMOUNT
                     /\ ~joined(a))
              /\ (aktuellePhase = "Registrierung" /\ now >= deadline) =>
                    last'.err = ErrDeadlineExpired
              /\ (last'.err # OK) =>
                    UNCHANGED <<pot, spielerListe, spielerDaten, balance>>
              /\ (last'.err = OK) =>
                    /\ pot' = pot + WAGER_AMOUNT
                    /\ spielerListe' = Append(spielerListe, a)
                    /\ spielerDaten'[a].wagerAmount = WAGER_AMOUNT
      ]_vars

\* a join after the registration deadline was rejected, with one player joined
C22_Witness ==
    /\ aktuellePhase = "Registrierung"
    /\ now >= deadline
    /\ last = Call("beitreten", "p2", ErrDeadlineExpired)
    /\ Len(spielerListe) = 1
    /\ pot = WAGER_AMOUNT

----------------------------------------------------------------------------
(* C23: in both contracts commit(hash) succeeds if and only if the phase is *)
(* Commit, the commit deadline is not reached, the caller has joined, has   *)
(* not committed before and hash is non-zero; on success it stores hash     *)
(* verbatim as the caller's commitment and sets hasCommitted; in any other  *)
(* phase it is rejected with the phase-mismatch reason.                     *)
C23_CommitGuards ==
    [][last'.op = "commit" =>
        IF aktuellePhase # "Commit"
        THEN /\ last'.err = ErrPhase
             /\ UNCHANGED contractVars
        ELSE \A a \in Addr : \A c \in CommitInputs(a) :
               commit(a, c) =>
                 /\ (last'.err = OK) <=>
                       (/\ now < deadline
                        /\ joined(a)
                        /\ ~spielerDaten[a].hasCommitted
                        /\ c # ZeroHash)
                 /\ (last'.err = OK) =>
                       /\ spielerDaten'[a].commitment = c
                       /\ spielerDaten'[a].hasCommitted
                       /\ \A b \in Addr \ {a} : spielerDaten'[b] = spielerDaten[b]
                 /\ (last'.err # OK) => UNCHANGED contractVars
      ]_vars

\* a joined player's commit during Registrierung was rejected for the phase
C23_Witness ==
    /\ aktuellePhase = "Registrierung"
    /\ joined("p1")
    /\ last = Call("commit", "p1", ErrPhase)
    /\ ~spielerDaten["p1"].hasCommitted

----------------------------------------------------------------------------
\* the phases of the block-height game without a deadline-gated transition
LatePhases == {"Berechnung", "Auszahlung", "Abgeschlossen", "Abgebrochen"}

----------------------------------------------------------------------------
(* C25: in both contracts withdrawServiceFee succeeds only in Auszahlung,   *)
(* only when called by the owner, and at most once per game; when it        *)
(* succeeds the owner receives exactly floor(pot * SERVICE_FEE_PERCENTAGE / *)
(* 100), the same amount that withdrawPrize deducts from the winner's       *)
(* payout.                                                                  *)
C25_FeeOnceToOwner ==
    /\ [][last'.op = "withdrawServiceFee" =>
            /\ \A a \in Addr \ {owner} : \A accepts \in BOOLEAN :
                 withdrawServiceFee(a, accepts) =>
                     /\ last'.err = ErrNotOwner
                     /\ UNCHANGED contractVars
            /\ (last'.err = OK) =>
                 LET fee == (pot * SERVICE_FEE_PERCENTAGE) \div 100 IN
                 /\ aktuellePhase = "Auszahlung"
                 /\ ~serviceFeeWithdrawn
                 /\ paidFee = 0
                 /\ serviceFeeWithdrawn'
                 /\ paidFee' = fee
                 /\ received'[owner] = received[owner] + fee
                 /\ balance' = balance - fee
                 /\ \A a \in Addr \ {owner} : received'[a] = received[a]
         ]_vars
    /\ [](paidPrize > 0 =>
            paidPrize = pot - ((pot * SERVICE_FEE_PERCENTAGE) \div 100))

\* the owner has just received the fee, after the winner took the prize
C25_Witness ==
    /\ variant = "ts"
    /\ last = Call("withdrawServiceFee", owner, OK)
    /\ paidFee = (pot * SERVICE_FEE_PERCENTAGE) \div 100
    /\ paidFee > 0
    /\ paidPrize = pot - paidFee

----------------------------------------------------------------------------
(* C26: in both contracts withdrawPrize called by anyone other than the     *)
(* recorded winner, or in any phase other than Auszahlung, is rejected,     *)
(* changes no state and transfers no funds.                                 *)
C26_PrizeOnlyWinnerInPayout ==
    [][last'.op = "withdrawPrize" =>
          IF aktuellePhase # "Auszahlung"
          THEN /\ last'.err = ErrPhase
               /\ UNCHANGED contractVars
          ELSE \A a \in Addr \ {winner} : \A accepts \in BOOLEAN :
                 withdrawPrize(a, accepts) =>
                     /\ last'.err = ErrNotWinner
                     /\ UNCHANGED contractVars
      ]_vars

\* a non-winner has asked for the prize in Auszahlung while it was still there
C26_Witness ==
    /\ aktuellePhase = "Auszahlung"
    /\ winner # NoAddress
    /\ ~spielerDaten[winner].hasWithdrawn
    /\ last.op = "withdrawPrize"
    /\ last.err = ErrNotWinner
    /\ balance = pot

----------------------------------------------------------------------------
(* C27: in the block-height game, once the phase is Abgebrochen the only    *)
(* state change a call can make is a successful reclaimWager, which sets    *)
(* the caller's hasWithdrawn and refunds the caller's stake; beitreten,     *)
(* commit, reveal, calculateResult, withdrawPrize and withdrawServiceFee    *)
(* are rejected, and advancePhase changes nothing.                          *)
RejectedWhenCancelled ==
    {"beitreten", "commit", "reveal", "calculateResult", "withdrawPrize",
     "withdrawServiceFee"}

C27_CancelledOnlyRefunds ==
    [][(aktuellePhase = "Abgebrochen" /\ now' = now) =>
          /\ last'.op \in RejectedWhenCancelled => last'.err # OK
          /\ \/ UNCHANGED contractVars
             \/ /\ last' = [op |-> "reclaimWager", err |-> OK]
                /\ \E a \in Addr :
                     /\ spielerDaten[a].wagerAmount > 0
                     /\ ~spielerDaten[a].hasWithdrawn
                     /\ spielerDaten' =
                          [spielerDaten EXCEPT ![a].hasWithdrawn = TRUE]
                     /\ received' = [received EXCEPT
                                       ![a] = @ + spielerDaten[a].wagerAmount]
                     /\ balance' = balance - spielerDaten[a].wagerAmount
                /\ UNCHANGED <<deployed, WAGER_AMOUNT, SERVICE_FEE_PERCENTAGE,
                               aktuellePhase, spielerListe, deadline, pot,
                               serviceFeeWithdrawn, winner, potentialWinners,
                               averageValue, targetValue, winningDistance,
                               paidPrize, paidFee>>
      ]_vars

\* a cancelled game in which one player has taken the stake back and the
\* owner's request for the fee has been rejected
C27_Witness ==
    /\ variant = "bh"
    /\ aktuellePhase = "Abgebrochen"
    /\ \E a \in Addr : spielerDaten[a].hasWithdrawn
    /\ balance < pot
    /\ last = [op |-> "withdrawServiceFee", err |-> ErrPhase]

----------------------------------------------------------------------------
(* C28: in the block-height game no stake is stranded: if blocks keep being *)
(* mined, transfers succeed and every address keeps attempting the calls it *)
(* is entitled to, then from every reachable state the balance held by the  *)
(* contract (stakes deposited minus amounts paid out) eventually becomes 0. *)
C28_BalanceDrainsBh ==
    (deployed /\ balance > 0) ~> (balance = 0)

\* a game that took stakes and has paid all of them out again, by refund
\* after a cancellation
C28_Witness ==
    /\ variant = "bh"
    /\ aktuellePhase = "Abgebrochen"
    /\ pot > 0
    /\ balance = 0
    /\ \A a \in Addr : joined(a) => spielerDaten[a].hasWithdrawn

\* a game that took stakes and has paid all of them out again, as prize and
\* service fee
C28_WitnessPayout ==
    /\ variant = "bh"
    /\ aktuellePhase = "Abgeschlossen"
    /\ pot > 0
    /\ balance = 0
    /\ paidPrize + paidFee = pot

----------------------------------------------------------------------------
(* C29 as stated: in the timestamp game no stake is stranded: if time       *)
(* passes, transfers succeed and the owner and the players keep attempting  *)
(* every call they are entitled to, then from every reachable state the     *)
(* balance held by the contract eventually becomes 0, also when fewer than  *)
(* 3 players joined before the registration deadline and when no player     *)
(* revealed.                                                                *)
C29_BalanceDrainsTs ==
    (deployed /\ balance > 0) ~> (balance = 0)

\* the registration deadline has passed with fewer than MIN_PLAYERS players
TsUnderQuorum ==
    /\ variant = "ts"
    /\ aktuellePhase = "Registrierung"
    /\ now >= deadline
    /\ Len(spielerListe) < MIN_PLAYERS

\* the calculation is due and no player has revealed
TsNobodyRevealed ==
    /\ variant = "ts"
    /\ aktuellePhase = "Berechnung"
    /\ \A a \in Addr : ~spielerDaten[a].hasRevealed

(* What the timestamp game does instead: once registration has closed with  *)
(* fewer than 3 players, or the calculation is due with no reveal, no call  *)
(* changes any contract variable or pays anything out, so the stakes stay   *)
(* in the contract for ever.                                                *)
C29_StakesStranded ==
    [][(TsUnderQuorum \/ TsNobodyRevealed) =>
          /\ UNCHANGED contractVars
          /\ (TsUnderQuorum \/ TsNobodyRevealed)'
      ]_vars

\* one player's stake is held, registration is over, and the transition has
\* just been refused for lack of players
C29_Witness ==
    /\ TsUnderQuorum
    /\ balance > 0
    /\ last.op = "forceStateTransition"
    /\ last.err = ErrNotEnoughPlayers

\* three stakes are held and the owner's calculation has just been refused
\* because nobody revealed
C29_WitnessNoReveal ==
    /\ TsNobodyRevealed
    /\ balance = 3 * WAGER_AMOUNT
    /\ last.op = "berechneErgebnisUndErmittleGewinner"
    /\ last.err = ErrNobodyRevealed

----------------------------------------------------------------------------
(* C30: in both contracts a reveal that fails because the hash does not     *)
(* match does not use up the player's chance: the failed call changes       *)
(* nothing, so that a reveal by the same player with the number (in 0..1000) *)
(* and salt of the stored commitment succeeds right after it, and keeps     *)
(* succeeding for as long as the phase is Reveal and the deadline has not   *)
(* been reached.                                                            *)
CanStillReveal(a) ==
    \A n \in RevealInputs(a), s \in Salts :
        (n <= 1000 /\ H(n, s, a) = spielerDaten[a].commitment) =>
            revealCheck(a, n, s) = OK

C30_FailedRevealKeepsChance ==
    /\ [][(last'.op = "reveal" /\ last'.err = ErrInvalidReveal) =>
            /\ UNCHANGED contractVars
            /\ now' = now
            /\ \A a \in Addr : \A n \in RevealInputs(a), s \in Salts :
                 (reveal(a, n, s) /\ revealCheck(a, n, s) = ErrInvalidReveal) =>
                     /\ ~spielerDaten'[a].hasRevealed
                     /\ CanStillReveal(a)'
         ]_vars
    /\ [](\A a \in Addr :
            (/\ aktuellePhase = "Reveal"
             /\ now < deadline
             /\ spielerDaten[a].hasCommitted
             /\ ~spielerDaten[a].hasRevealed) => CanStillReveal(a))

\* p1 has just failed a reveal with the wrong salt and can still reveal the
\* number it committed to
C30_Witness ==
    /\ aktuellePhase = "Reveal"
    /\ now < deadline
    /\ last = [op |-> "reveal", err |-> ErrInvalidReveal]
    /\ spielerDaten["p1"].commitment = H(200, "salt1", "p1")
    /\ ~spielerDaten["p1"].hasRevealed
    /\ revealCheck("p1", 200, "wrong_salt") = ErrInvalidReveal
    /\ revealCheck("p1", 200, "salt1") = OK

----------------------------------------------------------------------------
(* C31: in both contracts the caller's identity is bound into the           *)
(* commitment: a player who stored a commitment computed over another       *)
(* player's identity (a copy), whatever number and salt it passes, also the *)
(* pair the other player revealed, never completes a reveal; a reveal       *)
(* succeeds only against a commitment computed over the caller's identity.  *)
\* the identity a stored commitment was computed over
CommittedIdentity(a) ==
    IF Len(spielerDaten[a].commitment) = 3 THEN spielerDaten[a].commitment[3]
    ELSE NoAddress

C31_IdentityBoundIntoCommitment ==
    [][last'.op = "reveal" =>
          IF aktuellePhase # "Reveal"
          THEN last'.err = ErrPhase
          ELSE /\ \A a \in Addr :
                    (spielerDaten[a].hasCommitted /\ CommittedIdentity(a) # a) =>
                        \A n \in RevealInputs(a), s \in Salts :
                            reveal(a, n, s) =>
                                /\ last'.err # OK
                                /\ UNCHANGED contractVars
               /\ (last'.err = OK) =>
                    \E a \in Addr :
                        /\ ~spielerDaten[a].hasRevealed
                        /\ spielerDaten'[a].hasRevealed
                        /\ CommittedIdentity(a) = a
                        /\ \E s \in Salts :
                              spielerDaten[a].commitment =
                                  H(spielerDaten'[a].revealedNumber, s, a)
      ]_vars

\* p2 stored a copy of p1's commitment, p1 has revealed 100 with salt1, and
\* p2's replay of that pair has just been rejected
C31_Witness ==
    /\ aktuellePhase = "Reveal"
    /\ now < deadline
    /\ spielerDaten["p2"].hasCommitted
    /\ spielerDaten["p2"].commitment = H(100, "salt1", "p1")
    /\ spielerDaten["p1"].hasRevealed
    /\ spielerDaten["p1"].revealedNumber = 100
    /\ revealCheck("p2", 100, "salt1") = ErrInvalidReveal
    /\ last = [op |-> "reveal", err |-> ErrInvalidReveal]

----------------------------------------------------------------------------
(* C32: in every run of either contract, also when the owner of the         *)
(* timestamp game forces transitions before the deadline, every successful  *)
(* commit precedes every successful reveal: no commit succeeds once any     *)
(* player's reveal has succeeded, and no revealed number exists while       *)
(* commits are still possible.                                              *)
SomeRevealed == \E a \in Addr : spielerDaten[a].hasRevealed

C32_CommitsBeforeReveals ==
    /\ [][(last'.op = "commit" /\ SomeRevealed) =>
            /\ last'.err = ErrPhase
            /\ UNCHANGED contractVars
         ]_vars
    /\ [](SomeRevealed => aktuellePhase \notin {"Registrierung", "Commit"})
    /\ [][SomeRevealed => SomeRevealed']_vars

\* the owner of the timestamp game forced the phases forward before the
\* registration deadline, a player has revealed, and the commit of a player
\* who had not committed has just been rejected
C32_Witness ==
    /\ variant = "ts"
    /\ now < REGISTRATION_DURATION
    /\ aktuellePhase = "Reveal"
    /\ SomeRevealed
    /\ \E a \in Addr : joined(a) /\ ~spielerDaten[a].hasCommitted
    /\ last = [op |-> "commit", err |-> ErrPhase]

----------------------------------------------------------------------------
(* C33: in both contracts Registrierung -> Commit sets the deadline to the  *)
(* current time plus the commit window, Commit -> Reveal sets it to the     *)
(* current time plus the reveal window, and Reveal -> Berechnung clears it  *)
(* to 0; so the deadline is 0 in every reachable state whose phase is       *)
(* Berechnung, Auszahlung or Abgeschlossen.                                 *)
CommitWindow == IF variant = "ts" THEN COMMIT_DURATION ELSE COMMIT_BLOCKS
RevealWindow == IF variant = "ts" THEN REVEAL_DURATION ELSE REVEAL_BLOCKS

C33_DeadlinePerPhase ==
    /\ [][/\ (aktuellePhase = "Registrierung" /\ aktuellePhase' = "Commit") =>
                deadline' = now + CommitWindow /\ now' = now
          /\ (aktuellePhase = "Commit" /\ aktuellePhase' = "Reveal") =>
                deadline' = now + RevealWindow /\ now' = now
          /\ (aktuellePhase = "Reveal" /\ aktuellePhase' = "Berechnung") =>
                deadline' = 0
         ]_vars
    /\ [](aktuellePhase \in {"Berechnung", "Auszahlung", "Abgeschlossen"} =>
            deadline = 0)

\* the timestamp game has just entered Berechnung after the three windows
\* elapsed, and the deadline is cleared
C33_Witness ==
    /\ variant = "ts"
    /\ aktuellePhase = "Berechnung"
    /\ deadline = 0
    /\ now >= REGISTRATION_DURATION + COMMIT_DURATION + REVEAL_DURATION
    /\ last = [op |-> "forceStateTransition", err |-> OK]

\* the block-height game has just entered Reveal at a block after the start,
\* with the deadline one reveal window ahead
C33_WitnessReveal ==
    /\ variant = "bh"
    /\ aktuellePhase = "Reveal"
    /\ now > 0
    /\ deadline = now + REVEAL_BLOCKS
    /\ last = [op |-> "advancePhase", err |-> OK]

----------------------------------------------------------------------------
(* C34: in both contracts the calculation takes effect at most once per     *)
(* game: it succeeds only in Berechnung, and once it has moved the game to  *)
(* Auszahlung no operation changes winner, averageValue, targetValue or     *)
(* winningDistance, and the game never returns to Berechnung.               *)
CalculationOps == {"berechneErgebnisUndErmittleGewinner", "calculateResult"}

C34_CalculationOnce ==
    /\ [][(last'.op \in CalculationOps /\ last'.err = OK /\ now' = now) =>
            /\ aktuellePhase = "Berechnung"
            /\ aktuellePhase' \in {"Auszahlung", "Abgebrochen"}
         ]_vars
    /\ [][(aktuellePhase \in {"Auszahlung", "Abgeschlossen"}) =>
            /\ UNCHANGED <<winner, averageValue, targetValue, winningDistance>>
            /\ aktuellePhase' \in {"Auszahlung", "Abgeschlossen"}
            /\ (last'.op \in CalculationOps /\ now' = now) => last'.err # OK
         ]_vars

\* the result stands with two tied candidates, and a second calculation has
\* just been rejected
C34_Witness ==
    /\ aktuellePhase = "Auszahlung"
    /\ winner # NoAddress
    /\ Len(potentialWinners) = 2
    /\ last.op \in CalculationOps
    /\ last.err = ErrPhase

----------------------------------------------------------------------------
(* C35: in both contracts winner is unset (the zero address) in every       *)
(* reachable state whose phase is Registrierung, Commit, Reveal, Berechnung *)
(* or Abgebrochen, and in every reachable state whose phase is Auszahlung   *)
(* or Abgeschlossen winner is a joined player with hasRevealed set.         *)
C35_WinnerSetFromPayout ==
    /\ aktuellePhase \in {"Registrierung", "Commit", "Reveal", "Berechnung",
                          "Abgebrochen"} => winner = NoAddress
    /\ aktuellePhase \in {"Auszahlung", "Abgeschlossen"} =>
          /\ winner \in Addr
          /\ joined(winner)
          /\ spielerDaten[winner].hasRevealed
          /\ \E i \in 1..Len(spielerListe) : spielerListe[i] = winner

\* a winner has been determined in a game where the first player to join
\* did not reveal
C35_Witness ==
    /\ aktuellePhase = "Auszahlung"
    /\ winner \in Addr
    /\ spielerDaten[winner].hasRevealed
    /\ ~spielerDaten[spielerListe[1]].hasRevealed

\* a cancelled game has no winner although the calculation ran
C35_WitnessCancelled ==
    /\ aktuellePhase = "Abgebrochen"
    /\ winner = NoAddress
    /\ last = [op |-> "calculateResult", err |-> OK]

----------------------------------------------------------------------------
(* C36: in the timestamp game the owner may call forceStateTransition       *)
(* before the deadline in Registrierung, Commit and Reveal, and the         *)
(* transition then happens at once, except that Registrierung -> Commit     *)
(* requires at least 3 joined players also of the owner; the same call by   *)
(* anyone else before the deadline is rejected with "Uebergang noch nicht   *)
(* erlaubt." and changes nothing.                                           *)
NextPhase ==
    CASE aktuellePhase = "Registrierung" -> "Commit"
      [] aktuellePhase = "Commit" -> "Reveal"
      [] aktuellePhase = "Reveal" -> "Berechnung"
      [] OTHER -> aktuellePhase

C36_OwnerShortcut ==
    [][(/\ last'.op = "forceStateTransition"
        /\ aktuellePhase \in {"Registrierung", "Commit", "Reveal"}
        /\ now < deadline) =>
          /\ \A a \in Addr \ {owner} :
               forceStateTransition(a) =>
                   /\ last'.err = ErrTooEarlyTs
                   /\ UNCHANGED contractVars
          /\ forceStateTransition(owner) =>
               IF aktuellePhase = "Registrierung" /\ Len(spielerListe) < MIN_PLAYERS
               THEN /\ last'.err = ErrNotEnoughPlayers
                    /\ UNCHANGED contractVars
               ELSE /\ last'.err = OK
                    /\ aktuellePhase' = NextPhase
      ]_vars

\* the owner has just moved the game to Commit before the registration
\* deadline, with three players joined
C36_Witness ==
    /\ variant = "ts"
    /\ aktuellePhase = "Commit"
    /\ now < REGISTRATION_DURATION
    /\ Len(spielerListe) = 3
    /\ last = [op |-> "forceStateTransition", err |-> OK]

\* a call before the registration deadline has just been rejected as too early
C36_WitnessRejected ==
    /\ variant = "ts"
    /\ aktuellePhase = "Registrierung"
    /\ now < deadline
    /\ Len(spielerListe) = 3
    /\ last = [op |-> "forceStateTransition", err |-> ErrTooEarlyTs]

----------------------------------------------------------------------------
----------------------------------------------------------------------------
(* C38 as stated: in the timestamp game the registration window lasts 300   *)
(* seconds from creation: a beitreten attempted 301 seconds after the game  *)
(* was created, with no phase change in between, is rejected with "Deadline *)
(* fuer diese Aktion ist abgelaufen."                                       *)
C38_JoinRejectedAfter300 ==
    [][(/\ variant = "ts"
        /\ last'.op = "beitreten"
        /\ aktuellePhase = "Registrierung"
        /\ now >= 301) => last'.err = ErrDeadlineExpired
      ]_vars

(* What the timestamp game does instead: the window is the 600 seconds of   *)
(* REGISTRATION_DURATION; a beitreten in Registrierung is rejected for the  *)
(* deadline exactly when 600 or more seconds have passed since creation.    *)
C38_WindowIs600 ==
    /\ [][(/\ variant = "ts"
           /\ last'.op = "beitreten"
           /\ aktuellePhase = "Registrierung") =>
            /\ deadline = REGISTRATION_DURATION
            /\ (last'.err = ErrDeadlineExpired) <=> (now >= REGISTRATION_DURATION)
            /\ \A a \in Joiners :
                 (now < REGISTRATION_DURATION /\ ~joined(a)
                    /\ beitreten(a, WAGER_AMOUNT)) => last'.err = OK
         ]_vars

\* a player has just joined 301 seconds after the game was created
C38_Witness ==
    /\ variant = "ts"
    /\ aktuellePhase = "Registrierung"
    /\ now = 301
    /\ Len(spielerListe) >= 1
    /\ last = [op |-> "beitreten", err |-> OK]

----------------------------------------------------------------------------
(* C39: in both contracts, if the recipient of a payout calls back into the *)
(* contract during the transfer made by withdrawPrize, withdrawServiceFee   *)
(* or reclaimWager, its nested call of the same withdrawal is rejected and  *)
(* changes nothing, because the one-shot flag was set before the transfer   *)
(* (the rejection names the flag unless a nested call has already moved the *)
(* game out of the withdrawal's phase); whatever nested calls are made, no  *)
(* one is paid twice for the same entitlement and the payouts never exceed  *)
(* the deposits.                                                            *)
FlagError(op) ==
    CASE op = "withdrawPrize" -> ErrPrizeWithdrawn
      [] op = "withdrawServiceFee" -> ErrFeeWithdrawn
      [] op = "reclaimWager" -> ErrAlreadyReclaimed

PhaseOf(op) == IF op = "reclaimWager" THEN "Abgebrochen" ELSE "Auszahlung"

\* what the contract owes an address in all
Entitlement(a) ==
    (IF a = winner THEN winnerPayout ELSE 0)
    + (IF a = owner /\ aktuellePhase \in {"Auszahlung", "Abgeschlossen"}
       THEN serviceFee ELSE 0)
    + (IF aktuellePhase = "Abgebrochen" THEN spielerDaten[a].wagerAmount ELSE 0)

C39_ReentryPaysNothing ==
    /\ [][(/\ callStack # <<>>
           /\ callStack' = callStack
           /\ \E i \in 1..Len(callStack) : callStack[i].op = last'.op) =>
            /\ last'.err = IF aktuellePhase = PhaseOf(last'.op)
                           THEN FlagError(last'.op) ELSE ErrPhase
            /\ UNCHANGED contractVars
         ]_vars
    /\ [](/\ \A i, j \in 1..Len(callStack) :
               i # j => callStack[i].op # callStack[j].op
          /\ paidPrize \in {0, winnerPayout}
          /\ paidFee \in {0, serviceFee}
          /\ \A a \in Addr : received[a] <= Entitlement(a)
          /\ balance >= 0
          /\ balance + SumOver(Addr, received) = pot)

\* a player's code is running inside its refund, the contract still holds
\* enough for a second refund, and the player's nested reclaimWager has just
\* been rejected
C39_Witness ==
    /\ callStack # <<>>
    /\ callStack[Len(callStack)].op = "reclaimWager"
    /\ balance >= spielerDaten[Running].wagerAmount
    /\ received[Running] = spielerDaten[Running].wagerAmount
    /\ last = [op |-> "reclaimWager", err |-> ErrAlreadyReclaimed]

\* the winner, who is also the owner, has taken the fee from inside the
\* prize transfer, and its nested withdrawPrize has just been rejected
C39_WitnessNested ==
    /\ callStack # <<>>
    /\ callStack[1].op = "withdrawPrize"
    /\ Running = owner
    /\ winner = owner
    /\ serviceFeeWithdrawn
    /\ last.op = "withdrawPrize"
    /\ last.err \in {ErrPrizeWithdrawn, ErrPhase}

----------------------------------------------------------------------------
(* C40: in the block-height game, in each of Registrierung, Commit and      *)
(* Reveal and at every block height, exactly one of the two deadline guards *)
(* holds: that of beitreten, commit and reveal (block.number <              *)
(* deadlineBlock) or that of advancePhase (block.number >= deadlineBlock);  *)
(* so no join, commit or reveal succeeds in a block in which advancePhase   *)
(* could close the phase, and in every block one of the two is possible.    *)
OpenPhases == {"Registrierung", "Commit", "Reveal"}

C40_ExactlyOneDeadlineGuard ==
    /\ []((variant = "bh" /\ deployed /\ aktuellePhase \in OpenPhases) =>
            (nurVorDeadline <=> advancePhaseCheck("p3") # OK))
    /\ [][(/\ variant = "bh"
           /\ last'.op \in {"beitreten", "commit", "reveal"}
           /\ last'.err = OK) =>
            /\ advancePhaseCheck("p3") = ErrTooEarlyBh
            /\ now < deadline
         ]_vars
    /\ [][(/\ variant = "bh"
           /\ aktuellePhase \in OpenPhases
           /\ last'.op = "advancePhase") =>
            IF last'.err = OK
            THEN /\ now >= deadline
                 /\ aktuellePhase' # aktuellePhase
                 /\ \A a \in Joiners : beitretenCheck(a, WAGER_AMOUNT) # OK
                 /\ \A a \in Addr : \A c \in CommitInputs(a) : commitCheck(a, c) # OK
                 /\ \A a \in Addr : \A n \in RevealInputs(a), s \in Salts :
                        revealCheck(a, n, s) # OK
            ELSE /\ now < deadline
                 /\ last'.err = ErrTooEarlyBh
         ]_vars

\* a commit has just been rejected in the very block of the commit deadline,
\* in which advancePhase is possible
C40_Witness ==
    /\ variant = "bh"
    /\ aktuellePhase = "Commit"
    /\ now = deadline
    /\ advancePhaseCheck("p3") = OK
    /\ last = [op |-> "commit", err |-> ErrDeadlineExpired]

====
